---- MODULE Spec2Model ----
(***************************************************************************)
(* Model of RecommendationEngine.computeRecommendations (src/config.js):   *)
(* the favourites / list fetch, seed selection, the batched fan-out into   *)
(* the score map, filtering, bonus scoring and the diversity re-rank.      *)
(* Scores are kept in hundredths before rounding and in tenths after       *)
(* toFixed(1).                                                             *)
(* Three further specifications model the same file at the level of its    *)
(* remote requests: GqlSpec is AuthManager.gqlRequest, RunSpec is          *)
(* App._run around computeRecommendations, one request at a step, and      *)
(* AppSpec is the user's actions starting App._run.                        *)
(***************************************************************************)
EXTENDS Integers, Sequences, FiniteSets, TLC

VARIABLES
    server,        \* the remote data of this behaviour: favourites, lists
    pc,            \* position of the pipeline
    run,           \* number of pipeline runs started so far
    favPage,       \* fetchAllFavourites: next page to request
    favResults,    \* fetchAllFavourites: results so far
    favDone,       \* fetchAllFavourites has returned
    userList,      \* fetchUserList's result (sorted)
    listDone,      \* fetchUserList has returned
    sets,          \* planningIds, seenIds, topOnly, userTagMap, userGenreMap, topGenres
    tasks,         \* the seed list
    scoreMap,      \* the Map mediaId -> entry, in insertion order
    c,             \* index (0-based) of the first task of the next chunk
    batchLog,      \* outcome of each batch request of this run
    filtered,      \* the filtered list with its bonus fields, before the sort
    bonuses,       \* per entry of filtered: the loop's tagBonus and genreBonus
    ranked,        \* filtered after filtered.sort
    nDiversified,  \* diversified.length
    finalResults,  \* the value computeRecommendations returns
    prev,          \* outcome of the previous run: [log, results]
    token,         \* AuthManager._token: 0 for null, else the token
    viewer,        \* AuthManager._viewer is not null
    storage,       \* chrome.storage.local: anilistToken, anilistViewer, recoCache
    logins,        \* number of tokens AuthManager.login has obtained
    revoked,       \* the tokens AuthManager.logout has dropped so far
    calls,         \* the logical calls of gqlRequest, in the order they started
    ui,            \* what UIRenderer shows: auth view, section, run of the results
    rn,            \* the invocation of App._run and its computeRecommendations
    procs          \* the invocations of App._run, in the order they started

\* the variables of the pipeline
pipeVars == <<server, pc, run, favPage, favResults, favDone, userList, listDone,
              sets, tasks, scoreMap, c, batchLog, filtered, bonuses, ranked,
              nDiversified, finalResults, prev>>

\* the variables of the remote-call layer and of the application
netVars == <<token, viewer, storage, logins, revoked, calls, ui, rn, procs>>

vars == <<pipeVars, netVars>>

\* ---------------------------------------------------------------- constants
WEIGHT_FAVOURITE == 2
WEIGHT_TOP_RATED == 1
\* 0.5 and 0.3, in hundredths
TAG_BONUS == 50
GENRE_BONUS == 30
DIVERSITY_CAP == 5
MAX_FAV_SOURCES == 15
MAX_TOP_SOURCES == 10
CHUNK == 12
PER_PAGE == 25
TOP_GENRES == 10
COMMON_TAGS_SHOWN == 5
TAG_MATCH_CAP == 3
GENRE_MATCH_CAP == 3
MAX_RETRIES == 4
\* (2 ** _attempt) * 1500, in milliseconds
BACKOFF_BASE == 1500

\* ------------------------------------------------------------------- bounds
\* favourites / completed entries counted 0..MaxSmall, and up to MaxOver past a cap
MaxSmall == 2
MaxOver == 1
\* entries of the PLANNING and of the CURRENT bucket
MaxExtra == 2
\* pipeline runs per behaviour
MaxRuns == 2
\* largest number of seconds in a Retry-After header
MaxHint == 2
\* tokens obtained in one session of the popup
MaxLogins == 2
\* invocations of App._run in one session of the popup
MaxClicks == 2
\* pages of favourites the remote service can hold, and nodes on a page
MaxPages == 4
MaxNodes == 2

\* ------------------------------------------------------------------ helpers
\* JavaScript null / undefined / "" (all falsy where the code tests them)
NULL == <<>>

\* a missing status string
NoStatus == ""

Min(a, b) == IF a < b THEN a ELSE b

Range(s) == {s[i] : i \in 1..Len(s)}

\* s.slice(0, n)
Slice(s, n) == SubSeq(s, 1, Min(n, Len(s)))

RECURSIVE Flatten(_)
Flatten(ss) == IF ss = <<>> THEN <<>> ELSE Head(ss) \o Flatten(Tail(ss))

\* Array.prototype.sort with comparator (a, b) => key(b) - key(a): stable,
\* descending.  keys[i] is the key of the i-th element; the result is the order
\* of the indices.  Each index is inserted after the last index whose key is
\* >= its own.
RECURSIVE InsertDesc(_, _, _)
\* Mutant of InsertDesc: an element is inserted before the elements of equal key.
RECURSIVE InsertDescTiesReversed(_, _, _)
InsertDescTiesReversed(sorted, i, keys) ==
    IF sorted = <<>> THEN <<i>>
    ELSE IF keys[Head(sorted)] > keys[i]
         THEN <<Head(sorted)>> \o InsertDescTiesReversed(Tail(sorted), i, keys)
         ELSE <<i>> \o sorted

InsertDesc(sorted, i, keys) ==
    IF sorted = <<>> THEN <<i>>
    ELSE IF keys[Head(sorted)] >= keys[i]
         THEN <<Head(sorted)>> \o InsertDesc(Tail(sorted), i, keys)
         ELSE <<i>> \o sorted

\* (Len(sorted) < 0 never holds: testing it makes TLC evaluate the accumulator
\* at every step of a fold instead of nesting the pending steps.  The folds
\* below do the same.)
RECURSIVE SortPermFrom(_, _, _)
SortPermFrom(sorted, i, keys) ==
    IF i > Len(keys) \/ Len(sorted) < 0 THEN sorted
    ELSE SortPermFrom(InsertDesc(sorted, i, keys), i + 1, keys)

SortPerm(keys) == SortPermFrom(<<>>, 1, keys)

SortDesc(s, keys) == LET perm == SortPerm(keys) IN [i \in 1..Len(s) |-> s[perm[i]]]

\* Math.round(a / b) for a >= 0, b > 0
RoundDiv(a, b) == (2 * a + b) \div (2 * b)

\* +(x).toFixed(1): hundredths in, tenths out
ToFixed1(h) == (h + 5) \div 10

\* ------------------------------------------------------- the remote catalogue
\* What the remote service holds.  Titles 1..99 are titles of the user's
\* library, titles above 100 are titles the service recommends.
GenreNames == <<"Action", "Adventure", "Comedy", "Drama", "Ecchi", "Fantasy",
                "Horror", "Mecha", "Music", "Mystery", "Romance", "SciFi">>

TagNames == <<"t1", "t2", "t3", "t4", "t5", "t6">>

RemoteTitle(id) ==
    [english |-> IF id % 3 = 0 THEN NULL ELSE <<"en", id>>,
     romaji  |-> IF id % 6 = 0 THEN NULL ELSE <<"ro", id>>]

RemoteGenres(id) ==
    CASE id = 101 -> <<"Action", "Drama">>
      [] id = 102 -> <<"Action">>
      [] id = 103 -> <<"Action", "Comedy">>
      [] id = 104 -> <<"Action">>
      [] id = 105 -> <<"Action", "Romance", "Action">>
      [] id = 106 -> <<"Action", "Comedy", "Drama", "Fantasy">>
      [] id = 107 -> <<"Comedy">>
      [] id = 108 -> <<"Action", "Western">>
      [] id = 109 -> <<>>
      [] id = 110 -> <<"Drama", "Action">>
      [] OTHER    -> <<GenreNames[(id % 12) + 1], GenreNames[((id * 5) % 12) + 1]>>

RemoteTags(id) ==
    CASE id = 101 -> [i \in 1..6 |-> [name |-> TagNames[i], rank |-> 50 + i]]
      [] id = 102 -> <<[name |-> "t1", rank |-> 80]>>
      [] id = 103 -> <<[name |-> "t2", rank |-> 70], [name |-> "t3", rank |-> 10]>>
      [] id = 105 -> [i \in 1..4 |-> [name |-> TagNames[i], rank |-> 90]]
      [] id = 106 -> <<[name |-> "unseen", rank |-> 99]>>
      [] id = 107 -> <<[name |-> "t4", rank |-> 60]>>
      [] id > 100 -> <<>>
      [] OTHER    -> <<[name |-> TagNames[(id % 6) + 1], rank |-> (id * 17) % 101],
                       [name |-> TagNames[((id \div 2) % 6) + 1], rank |-> (id * 29) % 101]>>

\* A mediaRecommendation payload; id 0 stands for a null mediaRecommendation.
RemoteMedia(id) == [id |-> id, genres |-> RemoteGenres(id), tags |-> RemoteTags(id)]

NullMedia == [id |-> 0, genres |-> <<>>, tags |-> <<>>]

\* The ids Media(id: s).recommendations lists, best rated first (0: a null node).
RemoteRecIds(s) ==
    CASE s % 5 = 0 -> <<>>
      [] s % 4 = 1 -> <<101, 102, 103, 104, 105, 106, 107, 108>>
      [] s % 4 = 2 -> <<101, 109, 110, 2>>
      [] s % 4 = 3 -> <<109, 107>>
      [] OTHER     -> <<108, 0, 103, 1>>

\* The value of data.m<i> for seed s; every seventh title has no data.
RemoteRecommendations(s) ==
    IF s % 7 = 0 THEN [hasNodes |-> FALSE, nodes |-> <<>>]
    ELSE [hasNodes |-> TRUE,
          nodes |-> [i \in 1..Len(RemoteRecIds(s)) |->
                       IF RemoteRecIds(s)[i] = 0 THEN NullMedia
                       ELSE RemoteMedia(RemoteRecIds(s)[i])]]

\* ------------------------------------------------------------ the user's data
\* One list entry as the USER_LIST query returns it.
RemoteEntry(id, score, status) ==
    [mediaId |-> id, score |-> score, status |-> status,
     media |-> [title |-> RemoteTitle(id), genres |-> RemoteGenres(id),
                tags |-> RemoteTags(id)]]

\* The favourites: titles 1..n, in the service's order.
UserFavourites(n) == [i \in 1..n |-> [id |-> i, title |-> RemoteTitle(i)]]

\* The COMPLETED bucket: n rated titles, scores descending, from title off + 1 on
\* (the favourites are the titles 1..nFav).
CompletedBucket(off, n) ==
    [status |-> "COMPLETED",
     entries |-> [i \in 1..n |-> RemoteEntry(off + i, 10 - ((i - 1) \div 4), "COMPLETED")]]

\* The PLANNING bucket: k recommended titles; every second one carries a score.
PlanningBucket(k) ==
    [status |-> "PLANNING",
     entries |-> [j \in 1..k |->
        RemoteEntry(102 + j, IF j % 2 = 0 THEN 9 ELSE 0, "PLANNING")]]

\* The CURRENT bucket: odd entries are library titles rated 10 whose own status
\* is missing, even entries are unrated and also present in the PLANNING bucket.
CurrentBucket(k) ==
    [status |-> "CURRENT",
     entries |-> [j \in 1..k |->
        IF j % 2 = 1 THEN RemoteEntry(60 + j, 10, NoStatus)
        ELSE RemoteEntry(102 + j, 0, "CURRENT")]]

UserLists(off, nDone, k) ==
    SelectSeq(<<PlanningBucket(k), CompletedBucket(off, nDone), CurrentBucket(k)>>,
              LAMBDA b : b.entries # <<>>)

Server(f, d, off, k) == [favourites |-> UserFavourites(f), lists |-> UserLists(off, d, k)]

\* The completed titles are all the favourites and more, the later half of the
\* favourites and more, or no favourite.
Offsets(f) == {0, f \div 2, f}

\* Small libraries, every combination.
SmallServers ==
    UNION {{Server(f, d, off, k) : d \in 0..MaxSmall, off \in Offsets(f), k \in 0..MaxExtra} :
            f \in 0..MaxSmall}

\* Libraries at and past the caps: favourites at MAX_FAV_SOURCES and beyond, and
\* beyond one page; rated titles beyond MAX_TOP_SOURCES, and beyond
\* MAX_TOP_SOURCES + MAX_FAV_SOURCES.
LargeFavCounts == {0} \cup (MAX_FAV_SOURCES..(MAX_FAV_SOURCES + MaxOver)) \cup {PER_PAGE + MaxOver}

LargeDoneCounts == {0, MAX_TOP_SOURCES + MaxOver, MAX_FAV_SOURCES + MAX_TOP_SOURCES + 1 + MaxOver}

LargeServers ==
    UNION {{Server(f, d, off, k) : d \in LargeDoneCounts, off \in Offsets(f), k \in {0, MaxExtra}} :
            f \in LargeFavCounts}

Servers == SmallServers \cup LargeServers

\* ------------------------------------------------------ fetchAllFavourites
\* The answer to USER_FAVOURITES for one page.
FavouritesPage(favs, page) ==
    [nodes |-> SubSeq(favs, (page - 1) * PER_PAGE + 1, Min(page * PER_PAGE, Len(favs))),
     hasNextPage |-> page * PER_PAGE < Len(favs)]

\* n.title.english || n.title.romaji || `#${n.id}`
DisplayTitle(n) ==
    IF n.title.english # NULL THEN n.title.english
    ELSE IF n.title.romaji # NULL THEN n.title.romaji
    ELSE <<"#", n.id>>

FavouriteResults(nodes) ==
    [i \in 1..Len(nodes) |-> [id |-> nodes[i].id, title |-> DisplayTitle(nodes[i])]]

\* ----------------------------------------------------------- fetchUserList
ListEntry(entry, list) ==
    [mediaId |-> entry.mediaId,
     score   |-> entry.score,
     status  |-> IF entry.status # NoStatus THEN entry.status ELSE list.status,
     title   |-> IF entry.media.title.english # NULL THEN entry.media.title.english
                 ELSE entry.media.title.romaji,
     genres  |-> entry.media.genres,
     tags    |-> entry.media.tags]

ScoreKeys(s) == [i \in 1..Len(s) |-> s[i].score]

\* Flatten every bucket, then all.sort((a, b) => b.score - a.score).
FetchUserListResult(lists) ==
    LET all == Flatten([b \in 1..Len(lists) |->
                          [i \in 1..Len(lists[b].entries) |->
                              ListEntry(lists[b].entries[i], lists[b])]])
    IN  SortDesc(all, ScoreKeys(all))

\* ------------------------------------------------- step 2: sets and profile
PlanningIds(ul) == {ul[i].mediaId : i \in {j \in 1..Len(ul) : ul[j].status = "PLANNING"}}

\* Mutant of SeenIds: a title that is also PLANNING does not count as seen.
SeenIdsUnlessPlanning(ul) ==
    {ul[i].mediaId : i \in {j \in 1..Len(ul) : ul[j].status # "PLANNING"}}
    \ {ul[i].mediaId : i \in {j \in 1..Len(ul) : ul[j].status = "PLANNING"}}

SeenIds(ul) == {ul[i].mediaId : i \in {j \in 1..Len(ul) : ul[j].status # "PLANNING"}}

TopRated(ul) ==
    Slice(SelectSeq(ul, LAMBDA e : e.status # "PLANNING" /\ e.score > 0),
          MAX_TOP_SOURCES + MAX_FAV_SOURCES)

FavouriteSet(favs) == {favs[i].id : i \in 1..Len(favs)}

TopOnly(ul, favs) ==
    Slice(SelectSeq(TopRated(ul), LAMBDA e : e.mediaId \notin FavouriteSet(favs)),
          MAX_TOP_SOURCES)

\* userTagMap: name -> [totalRank, count]
AddTag(map, tag) ==
    IF tag.name \in DOMAIN map
    THEN [map EXCEPT ![tag.name] = [totalRank |-> @.totalRank + tag.rank, count |-> @.count + 1]]
    ELSE map @@ (tag.name :> [totalRank |-> tag.rank, count |-> 1])

\* for (const tag of entry.tags)
RECURSIVE AddTags(_, _)
AddTags(map, tags) ==
    IF tags = <<>> \/ Cardinality(DOMAIN map) < 0 THEN map
    ELSE AddTags(AddTag(map, Head(tags)), Tail(tags))

\* for (const entry of userList)
RECURSIVE AddEntriesTags(_, _, _)
AddEntriesTags(map, ul, i) ==
    IF i > Len(ul) \/ Cardinality(DOMAIN map) < 0 THEN map
    ELSE AddEntriesTags(AddTags(map, ul[i].tags), ul, i + 1)

UserTagMap(ul) == AddEntriesTags(<<>>, ul, 1)

\* userGenreMap: the Map's entries [genre, count] in insertion order
AddGenre(map, g) ==
    IF \E i \in 1..Len(map) : map[i].genre = g
    THEN LET k == CHOOSE i \in 1..Len(map) : map[i].genre = g
         IN  [map EXCEPT ![k].count = @ + 1]
    ELSE Append(map, [genre |-> g, count |-> 1])

\* for (const g of entry.genres)
RECURSIVE AddGenres(_, _)
AddGenres(map, gs) ==
    IF gs = <<>> \/ Len(map) < 0 THEN map
    ELSE AddGenres(AddGenre(map, Head(gs)), Tail(gs))

\* for (const entry of userList)
RECURSIVE AddEntriesGenres(_, _, _)
AddEntriesGenres(map, ul, i) ==
    IF i > Len(ul) \/ Len(map) < 0 THEN map
    ELSE AddEntriesGenres(AddGenres(map, ul[i].genres), ul, i + 1)

UserGenreMap(ul) == AddEntriesGenres(<<>>, ul, 1)

\* Mutant of TopGenres: slice(0, 9).
TopGenresOneLess(gm) ==
    LET top == Slice(SortDesc(gm, [i \in 1..Len(gm) |-> gm[i].count]), TOP_GENRES - 1)
    IN  {top[i].genre : i \in 1..Len(top)}

\* [...userGenreMap.entries()].sort((a, b) => b[1] - a[1]).slice(0, 10).map(([g]) => g)
TopGenres(gm) ==
    LET top == Slice(SortDesc(gm, [i \in 1..Len(gm) |-> gm[i].count]), TOP_GENRES)
    IN  {top[i].genre : i \in 1..Len(top)}

\* ------------------------------------------------------------ step 3: tasks
\* Mutant of UsedFavs: the slice is forgotten.
UsedFavsUncapped(favs) == favs

UsedFavs(favs) == Slice(favs, MAX_FAV_SOURCES)

FavouriteTask(fav) ==
    [mediaId |-> fav.id, weight |-> WEIGHT_FAVOURITE, sourceTitle |-> fav.title, type |-> "favori"]

TopRatedTask(entry) ==
    [mediaId |-> entry.mediaId, weight |-> WEIGHT_TOP_RATED, sourceTitle |-> entry.title,
     type |-> "top note"]

BuildTasksList(favs, topOnly) ==
    [i \in 1..Len(UsedFavs(favs)) |-> FavouriteTask(UsedFavs(favs)[i])]
    \o [i \in 1..Len(topOnly) |-> TopRatedTask(topOnly[i])]

\* ---------------------------------------------------------- step 4: fan-out
\* Mutant of Chunk: tasks.slice(c, c + CHUNK + 1).
ChunkOneMore(ts, from) == SubSeq(ts, from + 1, Min(from + CHUNK + 1, Len(ts)))

\* Mutant of NewScoreMap: the map outlives the run (a static field).
StaleScoreMap == scoreMap

\* const scoreMap = new Map()
NewScoreMap == <<>>

Chunk(ts, from) == SubSeq(ts, from + 1, Min(from + CHUNK, Len(ts)))

\* The data object of a compound query: data.m<i> for the i-th task of the chunk.
CompoundData(chunk) == [i \in 1..Len(chunk) |-> RemoteRecommendations(chunk[i].mediaId)]

Reason(task) == [sourceTitle |-> task.sourceTitle, type |-> task.type, weight |-> task.weight]

\* Mutant of MergeNode: an existing entry's baseScore is assigned, not added to.
MergeNodeAssign(map, task, media) ==
    IF media.id = 0 THEN map
    ELSE IF \E i \in 1..Len(map) : map[i].media.id = media.id
    THEN LET k == CHOOSE i \in 1..Len(map) : map[i].media.id = media.id
         IN  [map EXCEPT ![k].baseScore = task.weight,
                         ![k].reasons = Append(@, Reason(task))]
    ELSE Append(map, [media |-> media, baseScore |-> task.weight, reasons |-> <<Reason(task)>>])

\* Mutant of MergeNode: the reason is put in front (unshift), not pushed.
MergeNodeUnshift(map, task, media) ==
    IF media.id = 0 THEN map
    ELSE IF \E i \in 1..Len(map) : map[i].media.id = media.id
    THEN LET k == CHOOSE i \in 1..Len(map) : map[i].media.id = media.id
         IN  [map EXCEPT ![k].baseScore = @ + task.weight,
                         ![k].reasons = <<Reason(task)>> \o @]
    ELSE Append(map, [media |-> media, baseScore |-> task.weight, reasons |-> <<Reason(task)>>])

\* One node of one task: the body of the for loop.
MergeNode(map, task, media) ==
    IF media.id = 0 THEN map
    ELSE IF \E i \in 1..Len(map) : map[i].media.id = media.id
    THEN LET k == CHOOSE i \in 1..Len(map) : map[i].media.id = media.id
         IN  [map EXCEPT ![k].baseScore = @ + task.weight,
                         ![k].reasons = Append(@, Reason(task))]
    ELSE Append(map, [media |-> media, baseScore |-> task.weight, reasons |-> <<Reason(task)>>])

RECURSIVE MergeNodes(_, _, _)
MergeNodes(map, task, nodes) ==
    IF nodes = <<>> \/ Len(map) < 0 THEN map
    ELSE MergeNodes(MergeNode(map, task, Head(nodes)), task, Tail(nodes))

\* One task of the chunk: the callback of chunk.forEach.
MergeTask(map, task, mediaData) ==
    IF ~mediaData.hasNodes THEN map ELSE MergeNodes(map, task, mediaData.nodes)

RECURSIVE MergeChunk(_, _, _, _)
\* Mutant of MergeChunk: a task without recommendation nodes ends the loop
\* over the chunk.
RECURSIVE MergeChunkStopsAtMissing(_, _, _, _)
MergeChunkStopsAtMissing(map, chunk, data, i) ==
    IF i > Len(chunk) \/ Len(map) < 0 THEN map
    ELSE IF ~data[i].hasNodes \/ data[i].nodes = <<>> THEN map
    ELSE MergeChunkStopsAtMissing(MergeTask(map, chunk[i], data[i]), chunk, data, i + 1)

MergeChunk(map, chunk, data, i) ==
    IF i > Len(chunk) \/ Len(map) < 0 THEN map
    ELSE MergeChunk(MergeTask(map, chunk[i], data[i]), chunk, data, i + 1)

\* -------------------------------------------------------- step 5: filtering
\* Mutant of FilterSeen: planning titles are excluded like the seen ones.
FilterSeenAndPlanning(map, seenIds, planningIds) ==
    LET kept == SelectSeq(map, LAMBDA e : e.media.id \notin seenIds \cup planningIds)
    IN  [i \in 1..Len(kept) |->
            [media |-> kept[i].media, baseScore |-> kept[i].baseScore,
             reasons |-> kept[i].reasons, isPlanning |-> kept[i].media.id \in planningIds]]

FilterSeen(map, seenIds, planningIds) ==
    LET kept == SelectSeq(map, LAMBDA e : e.media.id \notin seenIds)
    IN  [i \in 1..Len(kept) |->
            [media |-> kept[i].media, baseScore |-> kept[i].baseScore,
             reasons |-> kept[i].reasons, isPlanning |-> kept[i].media.id \in planningIds]]

\* ---------------------------------------------------------- step 6: bonuses
Common(media, userTagMap) ==
    LET hits == SelectSeq(media.tags, LAMBDA tg : tg.name \in DOMAIN userTagMap)
    IN  [i \in 1..Len(hits) |->
            [name |-> hits[i].name,
             strength |-> RoundDiv(userTagMap[hits[i].name].totalRank,
                                   userTagMap[hits[i].name].count)]]

\* Mutant of CommonTags: common.sort is missing.
CommonTagsUnsorted(common) == Slice(common, COMMON_TAGS_SHOWN)

CommonTags(common) ==
    Slice(SortDesc(common, [i \in 1..Len(common) |-> common[i].strength]), COMMON_TAGS_SHOWN)

MatchedGenres(media, topGenres) == SelectSeq(media.genres, LAMBDA g : g \in topGenres)

\* Mutant of TagBonusOf: every common tag counts.
TagBonusUncapped(common) == Len(common) * TAG_BONUS

TagBonusOf(common) == Min(Len(common), TAG_MATCH_CAP) * TAG_BONUS

GenreBonusOf(matchedGenres) == Min(Len(matchedGenres), GENRE_MATCH_CAP) * GENRE_BONUS

\* Mutant of ScoreEntry: the tagBonus field stores the tag bonus alone.
ScoreEntryTagOnly(entry, userTagMap, topGenres) ==
    LET common == Common(entry.media, userTagMap)
        tagBonus == TagBonusOf(common)
        genreBonus == GenreBonusOf(MatchedGenres(entry.media, topGenres))
    IN  [media |-> entry.media, baseScore |-> entry.baseScore, reasons |-> entry.reasons,
         isPlanning |-> entry.isPlanning,
         commonTags |-> CommonTags(common),
         tagBonus |-> ToFixed1(tagBonus),
         score |-> ToFixed1(entry.baseScore * 100 + tagBonus + genreBonus)]

ScoreEntry(entry, userTagMap, topGenres) ==
    LET common == Common(entry.media, userTagMap)
        tagBonus == TagBonusOf(common)
        genreBonus == GenreBonusOf(MatchedGenres(entry.media, topGenres))
    IN  [media |-> entry.media, baseScore |-> entry.baseScore, reasons |-> entry.reasons,
         isPlanning |-> entry.isPlanning,
         commonTags |-> CommonTags(common),
         tagBonus |-> ToFixed1(tagBonus + genreBonus),
         score |-> ToFixed1(entry.baseScore * 100 + tagBonus + genreBonus)]

BonusParts(entry, userTagMap, topGenres) ==
    [tag |-> TagBonusOf(Common(entry.media, userTagMap)),
     genre |-> GenreBonusOf(MatchedGenres(entry.media, topGenres))]

\* ------------------------------------------------- step 7: sort and re-rank
\* (entry.media.genres || [])[0] || "Unknown"
PrimaryGenre(entry) ==
    IF entry.media.genres # <<>> /\ entry.media.genres[1] # ""
    THEN entry.media.genres[1] ELSE "Unknown"

\* genreCount.get(primaryGenre) || 0
GenreCountOf(genreCount, g) == IF g \in DOMAIN genreCount THEN genreCount[g] ELSE 0

\* Mutants of DiversifyStep: an entry of a saturated genre is dropped; the cap
\* is tested with <=; a deferred entry is put in front of the deferred list.
DiversifyStepDropping(st, entry) ==
    LET g == PrimaryGenre(entry)
        count == GenreCountOf(st.genreCount, g)
    IN  IF count < DIVERSITY_CAP
        THEN [st EXCEPT !.diversified = Append(@, entry),
                        !.genreCount = (g :> count + 1) @@ @]
        ELSE st

DiversifyStepOffByOne(st, entry) ==
    LET g == PrimaryGenre(entry)
        count == GenreCountOf(st.genreCount, g)
    IN  IF count <= DIVERSITY_CAP
        THEN [st EXCEPT !.diversified = Append(@, entry),
                        !.genreCount = (g :> count + 1) @@ @]
        ELSE [st EXCEPT !.deferred = Append(@, entry)]

DiversifyStepDeferredFirst(st, entry) ==
    LET g == PrimaryGenre(entry)
        count == GenreCountOf(st.genreCount, g)
    IN  IF count < DIVERSITY_CAP
        THEN [st EXCEPT !.diversified = Append(@, entry),
                        !.genreCount = (g :> count + 1) @@ @]
        ELSE [st EXCEPT !.deferred = <<entry>> \o @]

\* The body of the re-rank loop; st = [diversified, genreCount, deferred].
DiversifyStep(st, entry) ==
    LET g == PrimaryGenre(entry)
        count == GenreCountOf(st.genreCount, g)
    IN  IF count < DIVERSITY_CAP
        THEN [st EXCEPT !.diversified = Append(@, entry),
                        !.genreCount = (g :> count + 1) @@ @]
        ELSE [st EXCEPT !.deferred = Append(@, entry)]

RECURSIVE Diversify(_, _)
Diversify(st, entries) ==
    IF entries = <<>> \/ Len(st.diversified) < 0 THEN st
    ELSE Diversify(DiversifyStep(st, Head(entries)), Tail(entries))

Rerank(entries) ==
    Diversify([diversified |-> <<>>, genreCount |-> <<>>, deferred |-> <<>>], entries)

\* ---------------------------------------------------------------- actions
NoSets == [planningIds |-> {}, seenIds |-> {}, topOnly |-> <<>>, userTagMap |-> <<>>,
           userGenreMap |-> <<>>, topGenres |-> {}]

NoPrev == [ok |-> FALSE, log |-> <<>>, results |-> <<>>]

\* chrome.storage.local.recoCache: the run whose results it holds and their
\* number; n = 0 stands for no cache (_loadCache takes an empty one for none).
NoCache == [run |-> 0, n |-> 0, username |-> ""]

\* The values of the input: nothing, the viewer's name, the same name in
\* capitals, another name between blanks.
Inputs == {"", "Josh", "JOSH", " Ann "}

\* String.prototype.trim and String.prototype.toLowerCase on these values.
Trim(s) == IF s = " Ann " THEN "Ann" ELSE s

\* Mutant of ToLowerCase: the name is kept as typed.
ToLowerCaseKept(s) == s

ToLowerCase(s) ==
    CASE s = "Josh" -> "josh"
      [] s = "JOSH" -> "josh"
      [] s = "Ann"  -> "ann"
      [] s = " Ann " -> " ann "
      [] OTHER -> s

\* After chrome.storage.local.remove(["anilistToken", "anilistViewer", "recoCache"]).
NoStorage == [anilistToken |-> 0, anilistViewer |-> FALSE, recoCache |-> NoCache]

\* The popup before anything is shown.
NoUi == [auth |-> "out", section |-> "none", shown |-> 0]

\* No invocation of App._run yet.
NoRun == [id |-> 0, pc |-> "idle", fav |-> "idle", favPage |-> 1, list |-> "idle",
          seeds |-> <<>>, flying |-> {}, issued |-> <<>>, c |-> 0, log |-> <<>>,
          err |-> "", expired |-> FALSE, results |-> <<>>]

\* The pipeline before its first run.
PipeIdle ==
    /\ pc = "idle"
    /\ run = 0
    /\ favPage = 1
    /\ favResults = <<>>
    /\ favDone = FALSE
    /\ userList = <<>>
    /\ listDone = FALSE
    /\ sets = NoSets
    /\ tasks = <<>>
    /\ scoreMap = <<>>
    /\ c = 0
    /\ batchLog = <<>>
    /\ filtered = <<>>
    /\ bonuses = <<>>
    /\ ranked = <<>>
    /\ nDiversified = 0
    /\ finalResults = <<>>
    /\ prev = NoPrev

\* The remote-call layer and the application before anything has happened.
NetIdle ==
    /\ token = 0
    /\ viewer = FALSE
    /\ storage = NoStorage
    /\ logins = 0
    /\ revoked = {}
    /\ calls = <<>>
    /\ ui = NoUi
    /\ rn = NoRun
    /\ procs = <<>>

Init ==
    /\ server \in Servers
    /\ PipeIdle
    /\ NetIdle

\* computeRecommendations is called: both fetches start.  A run starts only
\* when no run is in progress; the outcome of the run before it is remembered.
StartRun ==
    /\ pc \in {"idle", "done", "failed"}
    /\ run < MaxRuns
    /\ run' = run + 1
    /\ pc' = "fetching"
    /\ prev' = IF pc = "done" THEN [ok |-> TRUE, log |-> batchLog, results |-> finalResults]
               ELSE NoPrev
    /\ favPage' = 1
    /\ favResults' = <<>>
    /\ favDone' = FALSE
    /\ userList' = <<>>
    /\ listDone' = FALSE
    /\ sets' = NoSets
    /\ tasks' = <<>>
    /\ c' = 0
    /\ batchLog' = <<>>
    /\ filtered' = <<>>
    /\ bonuses' = <<>>
    /\ ranked' = <<>>
    /\ nDiversified' = 0
    /\ finalResults' = <<>>
    /\ UNCHANGED <<server, scoreMap>>
    /\ UNCHANGED netVars

\* fetchAllFavourites: one page is answered.
FetchFavouritesPage ==
    /\ pc = "fetching"
    /\ ~favDone
    /\ LET data == FavouritesPage(server.favourites, favPage)
       IN  /\ favResults' = favResults \o FavouriteResults(data.nodes)
           /\ favDone' = ~data.hasNextPage
           /\ favPage' = favPage + 1
    /\ UNCHANGED <<server, pc, run, userList, listDone, sets, tasks, scoreMap, c, batchLog,
                   filtered, bonuses, ranked, nDiversified, finalResults, prev>>
    /\ UNCHANGED netVars

\* fetchAllFavourites: the request throws, or data.User is missing.
FetchFavouritesFail ==
    /\ pc = "fetching"
    /\ ~favDone
    /\ pc' = "failed"
    /\ UNCHANGED <<server, run, favPage, favResults, favDone, userList, listDone, sets, tasks,
                   scoreMap, c, batchLog, filtered, bonuses, ranked, nDiversified,
                   finalResults, prev>>
    /\ UNCHANGED netVars

\* fetchUserList: the request is answered.
FetchUserList ==
    /\ pc = "fetching"
    /\ ~listDone
    /\ userList' = FetchUserListResult(server.lists)
    /\ listDone' = TRUE
    /\ UNCHANGED <<server, pc, run, favPage, favResults, favDone, sets, tasks, scoreMap, c,
                   batchLog, filtered, bonuses, ranked, nDiversified, finalResults,
                   prev>>
    /\ UNCHANGED netVars

\* fetchUserList: the request throws.
FetchUserListFail ==
    /\ pc = "fetching"
    /\ ~listDone
    /\ pc' = "failed"
    /\ UNCHANGED <<server, run, favPage, favResults, favDone, userList, listDone, sets, tasks,
                   scoreMap, c, batchLog, filtered, bonuses, ranked, nDiversified,
                   finalResults, prev>>
    /\ UNCHANGED netVars

\* Promise.all has resolved: steps 2 and 3, and the new score map of step 4.
BuildTasks ==
    /\ pc = "fetching"
    /\ favDone /\ listDone
    /\ sets' = [planningIds  |-> PlanningIds(userList),
                seenIds      |-> SeenIds(userList),
                topOnly      |-> TopOnly(userList, favResults),
                userTagMap   |-> UserTagMap(userList),
                userGenreMap |-> UserGenreMap(userList),
                topGenres    |-> TopGenres(UserGenreMap(userList))]
    /\ tasks' = BuildTasksList(favResults, TopOnly(userList, favResults))
    /\ scoreMap' = NewScoreMap
    /\ c' = 0
    /\ pc' = "fanout"
    /\ UNCHANGED <<server, run, favPage, favResults, favDone, userList, listDone, batchLog,
                   filtered, bonuses, ranked, nDiversified, finalResults, prev>>
    /\ UNCHANGED netVars

\* One compound request is answered and its results are merged.
BatchOk ==
    /\ pc = "fanout"
    /\ c < Len(tasks)
    /\ LET chunk == Chunk(tasks, c)
       IN  scoreMap' = MergeChunk(scoreMap, chunk, CompoundData(chunk), 1)
    /\ batchLog' = Append(batchLog, "ok")
    /\ c' = c + CHUNK
    /\ UNCHANGED <<server, pc, run, favPage, favResults, favDone, userList, listDone, sets,
                   tasks,  filtered, bonuses, ranked, nDiversified, finalResults,
                   prev>>
    /\ UNCHANGED netVars

\* One compound request throws: the catch logs it and the loop goes on.
BatchFail ==
    /\ pc = "fanout"
    /\ c < Len(tasks)
    /\ batchLog' = Append(batchLog, "failed")
    /\ c' = c + CHUNK
    /\ UNCHANGED <<server, pc, run, favPage, favResults, favDone, userList, listDone, sets,
                   tasks, scoreMap, filtered, bonuses, ranked, nDiversified, finalResults,
                   prev>>
    /\ UNCHANGED netVars

\* The loop is over: steps 5 to 7, and the return.
Finish ==
    /\ pc = "fanout"
    /\ c >= Len(tasks)
    /\ LET kept == FilterSeen(scoreMap, sets.seenIds, sets.planningIds)
           scored == [i \in 1..Len(kept) |-> ScoreEntry(kept[i], sets.userTagMap, sets.topGenres)]
           sorted == SortDesc(scored, ScoreKeys(scored))
           st == Rerank(sorted)
       IN  /\ filtered' = scored
           /\ bonuses' = [i \in 1..Len(kept) |->
                            BonusParts(kept[i], sets.userTagMap, sets.topGenres)]
           /\ ranked' = sorted
           /\ nDiversified' = Len(st.diversified)
           /\ finalResults' = st.diversified \o st.deferred
    /\ pc' = "done"
    /\ UNCHANGED <<server, run, favPage, favResults, favDone, userList, listDone, sets, tasks,
                   scoreMap, c, batchLog,  prev>>
    /\ UNCHANGED netVars

Next ==
    \/ StartRun
    \/ FetchFavouritesPage
    \/ FetchFavouritesFail
    \/ FetchUserList
    \/ FetchUserListFail
    \/ BuildTasks
    \/ BatchOk
    \/ BatchFail
    \/ Finish

Spec == Init /\ [][Next]_vars

\* ------------------------------------------------------- what the claims read
\* The remote data read directly, without the pipeline's operators.

\* The titles of the answer to USER_LIST whose status (entry.status, or
\* list.status when the entry has none) is PLANNING, or is not.
RemoteStatusIds(planning) ==
    {server.lists[b].entries[i].mediaId :
        <<b, i>> \in {<<x, y>> \in (1..Len(server.lists)) \X (1..31) :
            /\ y <= Len(server.lists[x].entries)
            /\ planning = ("PLANNING" = IF server.lists[x].entries[y].status # NoStatus
                                        THEN server.lists[x].entries[y].status
                                        ELSE server.lists[x].status)}}

RemoteSeen == RemoteStatusIds(FALSE)

RemotePlanning == RemoteStatusIds(TRUE)

\* The titles seed s recommends (null nodes and missing data left out).
Recommended(s) == IF s % 7 = 0 THEN {} ELSE Range(RemoteRecIds(s)) \ {0}

\* The tasks whose batch has been answered so far.
Answered == {i \in 1..Min(c, Len(tasks)) : batchLog[((i - 1) \div CHUNK) + 1] = "ok"}

Contributors(id) == {i \in Answered : id \in Recommended(tasks[i].mediaId)}

RECURSIVE WeightSum(_)
WeightSum(I) ==
    IF I = {} THEN 0
    ELSE LET i == CHOOSE x \in I : TRUE IN tasks[i].weight + WeightSum(I \ {i})

FanoutStarted == pc \in {"fanout", "done"}

\* The primary genre as the documentation words it.
FirstGenre(entry) == IF entry.media.genres = <<>> THEN "Unknown" ELSE entry.media.genres[1]

\* C1: during and after the fan-out, the score map holds exactly the titles
\* recommended by a seed of an answered batch, once each, and the baseScore of
\* each is the sum of the weights of the seeds that recommended it (which does
\* not depend on the order of the seeds).
C1_BaseScoreIsWeightSum ==
    FanoutStarted =>
        /\ \A i \in 1..Len(scoreMap) :
              /\ Contributors(scoreMap[i].media.id) # {}
              /\ scoreMap[i].baseScore = WeightSum(Contributors(scoreMap[i].media.id))
              /\ \A j \in 1..Len(scoreMap) :
                    scoreMap[j].media.id = scoreMap[i].media.id => j = i
        /\ \A t \in Answered : \A id \in Recommended(tasks[t].mediaId) :
              \E i \in 1..Len(scoreMap) : scoreMap[i].media.id = id

\* Two favourites and one rated seed: a title recommended by both favourites
\* has baseScore 4, one recommended by a favourite and the rated seed has 3.
C1_Witness ==
    /\ pc = "done"
    /\ Len(tasks) = 3
    /\ tasks[1].weight = 2 /\ tasks[2].weight = 2 /\ tasks[3].weight = 1
    /\ \E x, y \in 1..Len(scoreMap) :
          /\ scoreMap[x].baseScore = 4 /\ Len(scoreMap[x].reasons) = 2
          /\ Contributors(scoreMap[x].media.id) = {1, 2}
          /\ scoreMap[y].baseScore = 3 /\ Len(scoreMap[y].reasons) = 2
          /\ Contributors(scoreMap[y].media.id) = {2, 3}

\* C2: no title of the returned list is on the user's list with a status
\* other than PLANNING.
C2_NoSeenInOutput ==
    pc = "done" => \A i \in 1..Len(finalResults) : finalResults[i].media.id \notin RemoteSeen

\* A title that is both PLANNING and seen was recommended, and left out.
C2_Witness ==
    /\ pc = "done"
    /\ finalResults # <<>>
    /\ \E i \in 1..Len(scoreMap) : scoreMap[i].media.id \in RemoteSeen \cap RemotePlanning
    /\ \E i \in 1..Len(scoreMap) : scoreMap[i].media.id \in RemoteSeen \ RemotePlanning

\* C3: a candidate that is on the list with status PLANNING only is returned,
\* flagged isPlanning; an entry that is not in the planning set is not flagged.
C3_PlanningKeptAndFlagged ==
    pc = "done" =>
        /\ \A i \in 1..Len(scoreMap) :
              scoreMap[i].media.id \in RemotePlanning \ RemoteSeen =>
                  \E j \in 1..Len(finalResults) :
                      /\ finalResults[j].media.id = scoreMap[i].media.id
                      /\ finalResults[j].isPlanning
        /\ \A j \in 1..Len(finalResults) :
              finalResults[j].media.id \notin RemotePlanning => ~finalResults[j].isPlanning

C3_Witness ==
    /\ pc = "done"
    /\ \E j \in 1..Len(finalResults) : finalResults[j].isPlanning
    /\ \E j \in 1..Len(finalResults) : ~finalResults[j].isPlanning

\* The candidate's tags found in the user's tag profile, and its genres found
\* in the top-genre set, counted where they stand.
MatchingTags(entry) ==
    Cardinality({k \in 1..Len(entry.media.tags) :
        \E i \in 1..Len(userList) : \E j \in 1..Len(userList[i].tags) :
            userList[i].tags[j].name = entry.media.tags[k].name})

MatchingGenres(entry) ==
    Cardinality({k \in 1..Len(entry.media.genres) : entry.media.genres[k] \in sets.topGenres})

\* C4: the tag part of the bonus is min(#matching tags, 3) x 0.5, at most 1.5;
\* the genre part is min(#matching genres, 3) x 0.3, at most 0.9; the stored
\* bonus is their sum, at most 2.4.
C4_BonusCaps ==
    pc = "done" =>
        \A i \in 1..Len(filtered) :
            /\ bonuses[i].tag = Min(MatchingTags(filtered[i]), 3) * 50
            /\ bonuses[i].tag <= 150
            /\ bonuses[i].genre = Min(MatchingGenres(filtered[i]), 3) * 30
            /\ bonuses[i].genre <= 90
            /\ filtered[i].tagBonus * 10 = bonuses[i].tag + bonuses[i].genre
            /\ filtered[i].tagBonus <= 24

\* More than three matching tags and more than three matching genres occur.
C4_Witness ==
    /\ pc = "done"
    /\ \E i \in 1..Len(filtered) : MatchingTags(filtered[i]) > 3
    /\ \E i \in 1..Len(filtered) : MatchingGenres(filtered[i]) > 3
    /\ \E i \in 1..Len(filtered) : filtered[i].tagBonus = 24

\* C5: the returned list is a permutation of the filtered list.
C5_RerankIsPermutation ==
    pc = "done" =>
        /\ Len(finalResults) = Len(filtered)
        /\ \A i \in 1..Len(filtered) :
              Cardinality({j \in 1..Len(finalResults) : finalResults[j] = filtered[i]}) = 1

\* Some entries were deferred.
C5_Witness == pc = "done" /\ 0 < nDiversified /\ nDiversified + 1 < Len(finalResults)

\* C6: among the first diversified.length entries of the returned list, at
\* most DIVERSITY_CAP have the same primary genre.
C6_CapInPrefix ==
    pc = "done" =>
        /\ nDiversified <= Len(finalResults)
        /\ \A i \in 1..nDiversified :
              Cardinality({j \in 1..nDiversified :
                  FirstGenre(finalResults[j]) = FirstGenre(finalResults[i])}) <= 5

\* A genre is at the cap and an entry was deferred.
C6_Witness ==
    /\ pc = "done"
    /\ nDiversified < Len(finalResults)
    /\ \E i \in 1..nDiversified :
          Cardinality({j \in 1..nDiversified :
              FirstGenre(finalResults[j]) = FirstGenre(finalResults[i])}) = 5

\* The entries of the sorted list that DIVERSITY_CAP entries of their primary
\* genre precede.
Saturated(i) ==
    Cardinality({j \in 1..(i - 1) : FirstGenre(ranked[j]) = FirstGenre(ranked[i])}) >= 5

RECURSIVE Pick(_, _, _)
Pick(i, wantSaturated, acc) ==
    IF i > Len(ranked) \/ Len(acc) < 0 THEN acc
    ELSE Pick(i + 1, wantSaturated,
              IF Saturated(i) = wantSaturated THEN Append(acc, ranked[i]) ELSE acc)

\* C7: an entry of the sorted list is deferred exactly when DIVERSITY_CAP
\* entries of its primary genre precede it there; the returned list is the
\* others in their sorted order, then the deferred ones in their sorted order.
C7_DeferredIffSaturated ==
    pc = "done" =>
        /\ nDiversified = Len(Pick(1, FALSE, <<>>))
        /\ finalResults = Pick(1, FALSE, <<>>) \o Pick(1, TRUE, <<>>)

\* Two entries were deferred, and an entry that follows one of them in the
\* sorted list was not.
C7_Witness ==
    /\ pc = "done"
    /\ nDiversified + 1 < Len(finalResults)
    /\ finalResults # ranked

\* C8: a run that received the same answers as the run before it (the remote
\* data is the same, and so is the outcome of every batch) returns the same
\* list, whatever the order in which the two fetches were answered.
C8_SameAnswersSameResults ==
    (pc = "done" /\ prev.ok /\ prev.log = batchLog) => finalResults = prev.results

\* Two completed runs with a failed batch at the same place and results.
C8_Witness ==
    /\ pc = "done" /\ prev.ok /\ prev.log = batchLog
    /\ Len(batchLog) > 1 /\ batchLog[1] = "failed"
    /\ Len(finalResults) > 1

Eligible ==
    SelectSeq(userList, LAMBDA e :
        /\ e.status # "PLANNING"
        /\ e.score > 0
        /\ \A k \in 1..Len(server.favourites) : server.favourites[k].id # e.mediaId)

\* C10: the rated seeds are the first min(10, |E|) eligible entries.
C10_TopOnlyIsEligiblePrefix ==
    FanoutStarted => sets.topOnly = SubSeq(Eligible, 1, Min(10, Len(Eligible)))

\* ======================================================================
\* RunSpec: App._run around computeRecommendations, one remote request at a
\* step.  gqlRequest is a call in flight that returns its data or throws
\* (GqlSpec below is gqlRequest itself); the data is that of the pipeline
\* above, computed with its operators.
\* ======================================================================

\* A library whose only bucket is PLANNING.
PlanningOnly(k) == [favourites |-> <<>>, lists |-> <<PlanningBucket(k)>>]

\* The libraries of RunSpec: no seed at all (empty, planning only), a few
\* seeds, one full batch, one batch and more, and two pages of favourites
\* with MAX_FAV_SOURCES + MAX_TOP_SOURCES seeds.
RunServers ==
    {Server(0, 0, 0, 0),
     PlanningOnly(MaxExtra),
     Server(MaxSmall, MaxSmall, MaxSmall, 0),
     Server(CHUNK, 0, 0, 0),
     Server(CHUNK, MaxOver, CHUNK, 0),
     Server(PER_PAGE + MaxOver, MAX_TOP_SOURCES, PER_PAGE + MaxOver, 0)}

\* What gqlRequest throws, and fetchAllFavourites when data.User is null.
FailureKinds == {"RATE_LIMITED", "TOKEN_EXPIRED", "ERROR"}

FavFailureKinds == FailureKinds \cup {"NOT_FOUND"}

\* tasks, as steps 1 to 3 build it from the answers of the two fetches.
RunTasks(srv) ==
    LET favs == FavouriteResults(srv.favourites)
    IN  BuildTasksList(favs, TopOnly(FetchUserListResult(srv.lists), favs))

\* The mediaIds of a list of tasks.
SeedIds(ts) == [i \in 1..Len(ts) |-> ts[i].mediaId]

\* The chunks whose request was answered, merged in the order of the log;
\* an entry of the log is [from, outcome].
RECURSIVE MergeAnswered(_, _, _, _)
MergeAnswered(map, ts, log, k) ==
    IF k > Len(log) \/ Len(map) < 0 THEN map
    ELSE MergeAnswered(
            IF log[k].outcome = "ok"
            THEN MergeChunk(map, Chunk(ts, log[k].from), CompoundData(Chunk(ts, log[k].from)), 1)
            ELSE map,
            ts, log, k + 1)

\* finalResults, as steps 4 to 7 compute it from the answered chunks.
PipelineResults(srv, log) ==
    LET ul == FetchUserListResult(srv.lists)
        kept == FilterSeen(MergeAnswered(NewScoreMap, RunTasks(srv), log, 1),
                           SeenIds(ul), PlanningIds(ul))
        tm == UserTagMap(ul)
        tg == TopGenres(UserGenreMap(ul))
        scored == [i \in 1..Len(kept) |-> ScoreEntry(kept[i], tm, tg)]
        st == Rerank(SortDesc(scored, ScoreKeys(scored)))
    IN  st.diversified \o st.deferred

\* The ids of a result list.
ResultIds(rs) == [i \in 1..Len(rs) |-> rs[i].media.id]

\* A cache left by an earlier session of the popup (run -1).
OldCache == [run |-> 0 - 1, n |-> 1, username |-> "josh"]

\* The popup is open, signed in or not, with or without an earlier cache.
RunInit ==
    /\ server \in RunServers
    /\ PipeIdle
    /\ token \in {0, 1}
    /\ viewer = (token # 0)
    /\ \E cached \in {NoCache, OldCache} :
          storage = [anilistToken |-> token, anilistViewer |-> token # 0, recoCache |-> cached]
    /\ logins = 0
    /\ revoked = {}
    /\ calls = <<>>
    /\ ui = [auth |-> IF token # 0 THEN "in" ELSE "out", section |-> "none", shown |-> 0]
    /\ rn = NoRun
    /\ procs = <<>>

\* What RunSpec leaves alone.
runFrame == <<pipeVars, logins, revoked, calls, procs>>

\* App._run has returned, and none of its requests is still in flight.
RunOver == rn.pc \in {"idle", "cached", "empty", "shown", "failed"}

NoneInFlight == rn.fav # "flight" /\ rn.list # "flight" /\ rn.flying = {}

\* gqlRequest throws kind: before TOKEN_EXPIRED it has called logout.
AfterThrow(kind) ==
    /\ token' = IF kind = "TOKEN_EXPIRED" THEN 0 ELSE token
    /\ viewer' = IF kind = "TOKEN_EXPIRED" THEN FALSE ELSE viewer
    /\ storage' = IF kind = "TOKEN_EXPIRED" THEN NoStorage ELSE storage

\* The catch of App._run.
CaughtUi(kind) ==
    [auth |-> IF kind = "TOKEN_EXPIRED" THEN "out" ELSE ui.auth,
     section |-> "error", shown |-> ui.shown]

\* Mutant of Rejected: the rejection of a fetch is ignored.
RejectedIgnored(r, kind) == [r EXCEPT !.expired = @ \/ kind = "TOKEN_EXPIRED"]

\* A fetch of Promise.all throws: while computeRecommendations awaits it, the
\* run is rejected and App._run catches; later the rejection is dropped.
FetchThrown(kind) ==
    /\ AfterThrow(kind)
    /\ ui' = IF rn.pc = "fetching" THEN CaughtUi(kind) ELSE ui

Rejected(r, kind) ==
    [r EXCEPT !.pc = IF r.pc = "fetching" THEN "failed" ELSE @,
              !.err = IF r.pc = "fetching" THEN kind ELSE @,
              !.expired = @ \/ kind = "TOKEN_EXPIRED"]

\* App._run without forceRefresh finds a cache and shows it.
RunFromCache ==
    /\ RunOver /\ NoneInFlight
    /\ rn.id < MaxRuns
    /\ storage.recoCache.n > 0
    /\ rn' = [NoRun EXCEPT !.id = rn.id + 1, !.pc = "cached"]
    /\ ui' = [ui EXCEPT !.section = "results", !.shown = storage.recoCache.run]
    /\ UNCHANGED <<token, viewer, storage>>
    /\ UNCHANGED runFrame

\* App._run with forceRefresh, or without a cache: computeRecommendations is
\* called and both fetches are sent.
RunCompute(forceRefresh) ==
    /\ RunOver /\ NoneInFlight
    /\ rn.id < MaxRuns
    /\ forceRefresh \/ storage.recoCache.n = 0
    /\ rn' = [NoRun EXCEPT !.id = rn.id + 1, !.pc = "fetching",
                           !.fav = "flight", !.list = "flight"]
    /\ ui' = [ui EXCEPT !.section = "status"]
    /\ UNCHANGED <<token, viewer, storage>>
    /\ UNCHANGED runFrame

\* fetchAllFavourites: a page is answered; the next one is requested.
FavouritesAnswered ==
    /\ rn.fav = "flight"
    /\ rn' = [rn EXCEPT !.fav = IF FavouritesPage(server.favourites, rn.favPage).hasNextPage
                                 THEN "flight" ELSE "done",
                        !.favPage = @ + 1]
    /\ UNCHANGED <<token, viewer, storage, ui>>
    /\ UNCHANGED runFrame

\* fetchAllFavourites throws: gqlRequest threw, or data.User is null.
FavouritesThrows(kind) ==
    /\ rn.fav = "flight"
    /\ rn' = [Rejected(rn, kind) EXCEPT !.fav = "failed"]
    /\ FetchThrown(kind)
    /\ UNCHANGED runFrame

\* fetchUserList: the request is answered.
ListAnswered ==
    /\ rn.list = "flight"
    /\ rn' = [rn EXCEPT !.list = "done"]
    /\ UNCHANGED <<token, viewer, storage, ui>>
    /\ UNCHANGED runFrame

\* fetchUserList throws.
ListThrows(kind) ==
    /\ rn.list = "flight"
    /\ rn' = [Rejected(rn, kind) EXCEPT !.list = "failed"]
    /\ FetchThrown(kind)
    /\ UNCHANGED runFrame

\* Promise.all resolves: steps 2 and 3.
FetchesResolved ==
    /\ rn.pc = "fetching"
    /\ rn.fav = "done" /\ rn.list = "done"
    /\ rn' = [rn EXCEPT !.pc = "fanout", !.seeds = SeedIds(RunTasks(server)), !.c = 0]
    /\ UNCHANGED <<token, viewer, storage, ui>>
    /\ UNCHANGED runFrame

\* Mutant of BatchesToIssue: the requests of all remaining chunks are sent
\* together (the loop does not await).
BatchesAllAtOnce(from, n) == {b \in from..(n - 1) : (b - from) % CHUNK = 0}

\* The chunks whose request one passage of the loop sends: the chunk at c;
\* the loop then awaits its answer.
BatchesToIssue(from, n) == {from}

\* The compound request of the chunk that starts at from.
BatchRequest(from) == [from |-> from, seeds |-> Chunk(rn.seeds, from)]

\* for (let c = 0; c < tasks.length; c += CHUNK): the request of the chunk is sent.
IssueBatch ==
    /\ rn.pc = "fanout"
    /\ rn.flying = {}
    /\ rn.c < Len(rn.seeds)
    /\ LET bs == BatchesToIssue(rn.c, Len(rn.seeds))
       IN  rn' = [rn EXCEPT !.flying = bs,
                            !.issued = @ \o [k \in 1..Cardinality(bs) |->
                                                BatchRequest(rn.c + (k - 1) * CHUNK)]]
    /\ UNCHANGED <<token, viewer, storage, ui>>
    /\ UNCHANGED runFrame

\* The request is answered: the chunk is merged, and the loop goes on.
BatchAnswered ==
    /\ rn.pc = "fanout"
    /\ \E b \in rn.flying :
          rn' = [rn EXCEPT !.flying = @ \ {b},
                           !.log = Append(@, [from |-> b, outcome |-> "ok"]),
                           !.c = @ + CHUNK]
    /\ UNCHANGED <<token, viewer, storage, ui>>
    /\ UNCHANGED runFrame

\* Mutant of BatchCaught: the catch throws the error on.
BatchRethrown(r, b, kind) ==
    [r EXCEPT !.flying = @ \ {b},
              !.log = Append(@, [from |-> b, outcome |-> "failed"]),
              !.pc = "failed",
              !.err = kind,
              !.expired = @ \/ kind = "TOKEN_EXPIRED"]

\* catch (err) { console.warn(...) }, and the end of the loop's body.
BatchCaught(r, b, kind) ==
    [r EXCEPT !.flying = @ \ {b},
              !.log = Append(@, [from |-> b, outcome |-> "failed"]),
              !.c = @ + CHUNK,
              !.expired = @ \/ kind = "TOKEN_EXPIRED"]

\* The request throws: the catch logs it, and the loop goes on.
BatchThrows(kind) ==
    /\ rn.pc = "fanout"
    /\ \E b \in rn.flying : rn' = BatchCaught(rn, b, kind)
    /\ AfterThrow(kind)
    /\ UNCHANGED ui
    /\ UNCHANGED runFrame

\* Mutant of EmptyResult: the test is missing.
EmptyResultNever(results) == FALSE

\* Mutant of EmptyResult: the test is inverted.
EmptyResultInverted(results) == results # <<>>

\* if (!results.length)
EmptyResult(results) == results = <<>>

\* The loop is over: steps 5 to 7 and the return; App._run shows the empty
\* state, or calls _saveCache.
ReturnResults ==
    /\ rn.pc = "fanout"
    /\ rn.flying = {}
    /\ rn.c >= Len(rn.seeds)
    /\ LET results == ResultIds(PipelineResults(server, rn.log))
       IN  /\ rn' = [rn EXCEPT !.results = results,
                               !.pc = IF EmptyResult(results) THEN "empty" ELSE "saving"]
           /\ ui' = IF EmptyResult(results) THEN [ui EXCEPT !.section = "error"] ELSE ui
           /\ storage' = IF EmptyResult(results) THEN storage
                         ELSE [storage EXCEPT !.recoCache =
                                  [run |-> rn.id, n |-> Len(results),
                                   username |-> ToLowerCase("Josh")]]
    /\ UNCHANGED <<token, viewer>>
    /\ UNCHANGED runFrame

\* _saveCache has returned: _show(results).
CacheSaved ==
    /\ rn.pc = "saving"
    /\ rn' = [rn EXCEPT !.pc = "shown"]
    /\ ui' = [ui EXCEPT !.section = "results", !.shown = rn.id]
    /\ UNCHANGED <<token, viewer, storage>>
    /\ UNCHANGED runFrame

RunNext ==
    \/ RunFromCache
    \/ \E forceRefresh \in BOOLEAN : RunCompute(forceRefresh)
    \/ FavouritesAnswered
    \/ \E kind \in FavFailureKinds : FavouritesThrows(kind)
    \/ ListAnswered
    \/ \E kind \in FailureKinds : ListThrows(kind)
    \/ FetchesResolved
    \/ IssueBatch
    \/ BatchAnswered
    \/ \E kind \in FailureKinds : BatchThrows(kind)
    \/ ReturnResults
    \/ CacheSaved

RunSpec == RunInit /\ [][RunNext]_vars

\* ------------------------------------------------ what the claims of a run read
\* ceil(n / 12)
BatchCount(n) == (n + 11) \div 12

\* computeRecommendations has returned a list.
Returned == rn.pc \in {"empty", "saving", "shown"}

\* The results of this run are in the cache, or in the grid.
CachedOrShown ==
    \/ storage.recoCache.n > 0 /\ storage.recoCache.run = rn.id
    \/ ui.section = "results" /\ ui.shown = rn.id

\* The seeds whose batch request was answered.
AnsweredSeeds ==
    {rn.seeds[i] : i \in {j \in 1..Len(rn.seeds) :
        \E k \in 1..Len(rn.log) :
            rn.log[k].outcome = "ok" /\ rn.log[k].from = 12 * ((j - 1) \div 12)}}

C12_BatchesOneAtATime ==
    /\ Cardinality(rn.flying) <= 1
    /\ Len(rn.issued) = Len(rn.log) + Cardinality(rn.flying)
    /\ \A b \in rn.flying : b = 12 * Len(rn.log)
    /\ rn.issued # <<>> => rn.fav = "done" /\ rn.list = "done"
    /\ (rn.fav = "flight" \/ rn.list = "flight") => rn.flying = {}

\* The second batch is in flight after the first one threw; before that both
\* fetches were in flight (the second page of the favourites was fetched).
C12_Witness ==
    /\ rn.flying = {12}
    /\ Len(rn.log) = 1 /\ rn.log[1].outcome = "failed"
    /\ rn.favPage > 2

\* C13: a batch request that throws, whatever it throws, does not end the run
\* in failure; no chunk is requested twice; and the list returned holds, once
\* each, the titles recommended by the seeds of the answered batches that are
\* not seen.
C13_FailedBatchSkipped ==
    /\ rn.log # <<>> => rn.pc \in {"fanout", "empty", "saving", "shown"}
    /\ \A j, k \in 1..Len(rn.issued) : rn.issued[j].from = rn.issued[k].from => j = k
    /\ Returned =>
          /\ Len(rn.log) = BatchCount(Len(rn.seeds))
          /\ Range(rn.results) = UNION {Recommended(s) : s \in AnsweredSeeds} \ RemoteSeen
          /\ \A i, j \in 1..Len(rn.results) : rn.results[i] = rn.results[j] => i = j

\* The first batch threw TOKEN_EXPIRED, a later one was answered, and results
\* are shown.
C13_Witness ==
    /\ rn.pc = "shown"
    /\ rn.expired
    /\ Len(rn.log) = 3
    /\ rn.log[1].outcome = "failed" /\ rn.log[3].outcome = "ok"
    /\ rn.results # <<>>

\* C14: once a fetch has thrown, the run has failed with an error, no batch
\* request is ever sent, the error is shown, and the results of the run are
\* neither cached nor shown.
C14_FetchFailureAborts ==
    (rn.fav = "failed" \/ rn.list = "failed") =>
        /\ rn.pc = "failed"
        /\ rn.err \in FavFailureKinds
        /\ rn.err = "NOT_FOUND" => rn.fav = "failed"
        /\ rn.issued = <<>> /\ rn.flying = {}
        /\ rn.results = <<>>
        /\ ui.section = "error"
        /\ ~CachedOrShown

\* The user is not found while the list request is still in flight, and an
\* earlier cache is kept.
C14_Witness ==
    /\ rn.pc = "failed"
    /\ rn.err = "NOT_FOUND"
    /\ rn.list = "flight"
    /\ storage.recoCache.n > 0

\* ======================================================================
\* GqlSpec: AuthManager.gqlRequest, one HTTP request or one sleep at a step,
\* called by the two callers that Promise.all runs together; the server
\* answers anything.
\* ======================================================================

\* The two calls that may be pending together.
Callers == {"fetchAllFavourites", "fetchUserList"}

\* The Retry-After header: absent, not a number (a date), or a number.
NoHeader == [present |-> FALSE, numeric |-> FALSE, value |-> 0]

RetryAfterHeaders ==
    {NoHeader, [present |-> TRUE, numeric |-> FALSE, value |-> 0]}
    \cup {[present |-> TRUE, numeric |-> TRUE, value |-> v] : v \in (0 - 1)..MaxHint}

\* What gqlRequest reads of the body: no JSON, errors whose message holds
\* "invalid token", other errors, data, or JSON with neither.
Bodies == {"nonjson", "invalid token", "errors", "data", "nodata"}

\* The responses: a 429 (its body is not read), or another status with a body.
Responses ==
    {[status |-> 429, retryAfter |-> h, body |-> "unread"] : h \in RetryAfterHeaders}
    \cup {[status |-> st, retryAfter |-> NoHeader, body |-> b] : st \in {200, 401, 500}, b \in Bodies}

NoResponse == [status |-> 0, retryAfter |-> NoHeader, body |-> "unread"]

\* A call of gqlRequest: _attempt, the requests sent and the 429s received so
\* far, the token of the request in flight, the sleep in progress, the last
\* response, and what was returned or thrown.
NoCall == [phase |-> "idle", attempt |-> 0, sent |-> 0, n429 |-> 0, carried |-> 0,
           wait |-> 0, last |-> NoResponse, outcome |-> ""]

\* parseInt(res.headers.get("Retry-After") || "0", 10)
ParseInt(h) ==
    IF ~h.present THEN [nan |-> FALSE, value |-> 0]
    ELSE IF ~h.numeric THEN [nan |-> TRUE, value |-> 0]
    ELSE [nan |-> FALSE, value |-> h.value]

\* Mutant of Backoff: the wait grows by BACKOFF_BASE at each attempt.
BackoffLinear(retryAfter, attempt) ==
    IF ~retryAfter.nan /\ retryAfter.value > 0 THEN retryAfter.value * 1000
    ELSE (attempt + 1) * BACKOFF_BASE

\* retryAfter > 0 ? retryAfter * 1000 : (2 ** _attempt) * 1500
Backoff(retryAfter, attempt) ==
    IF ~retryAfter.nan /\ retryAfter.value > 0 THEN retryAfter.value * 1000
    ELSE (2 ^ attempt) * BACKOFF_BASE

\* Mutant of RetriesExhausted: _attempt > MAX_RETRIES.
RetriesExhaustedLate(attempt) == attempt > MAX_RETRIES

\* if (_attempt >= MAX_RETRIES) throw
RetriesExhausted(attempt) == attempt >= MAX_RETRIES

\* What gqlRequest does with a response that is not a 429.
Outcome(res) ==
    IF res.body = "nonjson" THEN "NON_JSON"
    ELSE IF res.body \in {"invalid token", "errors"}
         THEN IF res.body = "invalid token" \/ res.status = 401
              THEN "TOKEN_EXPIRED" ELSE "GRAPHQL_ERROR"
    ELSE IF res.status # 200 /\ res.body = "nodata" THEN "HTTP_ERROR"
    ELSE "ok"

\* Mutant of LogoutToken: logout keeps the token.
LogoutTokenKept == token

\* this._token = null
LogoutToken == 0

\* The popup was opened: AuthManager.init has loaded a stored token, or none.
GqlInit ==
    /\ server = Server(0, 0, 0, 0)
    /\ PipeIdle
    /\ token \in {0, 1}
    /\ viewer = (token # 0)
    /\ storage = [anilistToken |-> token, anilistViewer |-> token # 0, recoCache |-> OldCache]
    /\ logins = token
    /\ revoked = {}
    /\ calls = [s \in Callers |-> NoCall]
    /\ ui = NoUi
    /\ rn = NoRun
    /\ procs = <<>>

\* What GqlSpec leaves alone.
gqlFrame == <<pipeVars, ui, rn, procs>>

\* AuthManager.login: a new token is held and stored.
Login ==
    /\ logins < MaxLogins
    /\ logins' = logins + 1
    /\ token' = logins + 1
    /\ storage' = [storage EXCEPT !.anilistToken = logins + 1]
    /\ UNCHANGED <<viewer, revoked, calls>>
    /\ UNCHANGED gqlFrame

\* gqlRequest(query, variables): the first request is sent, with the token held.
CallStarts(s) ==
    /\ calls[s].phase \in {"idle", "returned"}
    /\ calls' = [calls EXCEPT ![s] = [NoCall EXCEPT !.phase = "sent", !.sent = 1,
                                                    !.carried = token]]
    /\ UNCHANGED <<token, viewer, storage, logins, revoked>>
    /\ UNCHANGED gqlFrame

\* A 429 with retries left: sleep(backoff).
TooManyRequests(s, res) ==
    /\ calls[s].phase = "sent"
    /\ res.status = 429
    /\ ~RetriesExhausted(calls[s].attempt)
    /\ calls' = [calls EXCEPT ![s].phase = "sleeping",
                              ![s].n429 = @ + 1,
                              ![s].carried = 0,
                              ![s].last = res,
                              ![s].wait = Backoff(ParseInt(res.retryAfter), calls[s].attempt)]
    /\ UNCHANGED <<token, viewer, storage, logins, revoked>>
    /\ UNCHANGED gqlFrame

\* A 429 with no retry left: throw "Too Many Requests".
GivesUp(s, res) ==
    /\ calls[s].phase = "sent"
    /\ res.status = 429
    /\ RetriesExhausted(calls[s].attempt)
    /\ calls' = [calls EXCEPT ![s].phase = "returned",
                              ![s].n429 = @ + 1,
                              ![s].carried = 0,
                              ![s].last = [res EXCEPT !.retryAfter = NoHeader],
                              ![s].outcome = "RATE_LIMITED"]
    /\ UNCHANGED <<token, viewer, storage, logins, revoked>>
    /\ UNCHANGED gqlFrame

\* The sleep is over: gqlRequest(query, variables, _attempt + 1) sends the
\* request again, with the token held now.
Retries(s) ==
    /\ calls[s].phase = "sleeping"
    /\ calls' = [calls EXCEPT ![s].phase = "sent",
                              ![s].attempt = @ + 1,
                              ![s].sent = @ + 1,
                              ![s].wait = 0,
                              ![s].last = NoResponse,
                              ![s].carried = token]
    /\ UNCHANGED <<token, viewer, storage, logins, revoked>>
    /\ UNCHANGED gqlFrame

\* Another response, not an authentication failure: data is returned, or an
\* error is thrown.
Responded(s, res) ==
    /\ calls[s].phase = "sent"
    /\ res.status # 429
    /\ Outcome(res) # "TOKEN_EXPIRED"
    /\ calls' = [calls EXCEPT ![s].phase = "returned",
                              ![s].carried = 0,
                              ![s].last = res,
                              ![s].outcome = Outcome(res)]
    /\ UNCHANGED <<token, viewer, storage, logins, revoked>>
    /\ UNCHANGED gqlFrame

\* An authentication failure: logout() is called, which drops token and
\* viewer and asks the storage to remove its three keys.
AuthFails(s, res) ==
    /\ calls[s].phase = "sent"
    /\ res.status # 429
    /\ Outcome(res) = "TOKEN_EXPIRED"
    /\ calls' = [calls EXCEPT ![s].phase = "logout", ![s].carried = 0, ![s].last = res]
    /\ token' = LogoutToken
    /\ viewer' = FALSE
    /\ storage' = NoStorage
    /\ revoked' = revoked \cup ({token} \ {0})
    /\ UNCHANGED logins
    /\ UNCHANGED gqlFrame

\* logout() has returned: throw TOKEN_EXPIRED.
ThrowsExpired(s) ==
    /\ calls[s].phase = "logout"
    /\ calls' = [calls EXCEPT ![s].phase = "returned", ![s].outcome = "TOKEN_EXPIRED"]
    /\ UNCHANGED <<token, viewer, storage, logins, revoked>>
    /\ UNCHANGED gqlFrame

GqlNext ==
    \/ Login
    \/ \E s \in Callers : CallStarts(s)
    \/ \E s \in Callers : \E res \in Responses : TooManyRequests(s, res)
    \/ \E s \in Callers : \E res \in Responses : GivesUp(s, res)
    \/ \E s \in Callers : Retries(s)
    \/ \E s \in Callers : \E res \in Responses : Responded(s, res)
    \/ \E s \in Callers : \E res \in Responses : AuthFails(s, res)
    \/ \E s \in Callers : ThrowsExpired(s)

GqlSpec == GqlInit /\ [][GqlNext]_vars

\* ---------------------------------------------- what the claims of a call read
\* What is left of a call: four steps for each request not yet sent, and the
\* steps of the request in progress.
Remaining(cl) ==
    4 * (5 - cl.sent)
    + (CASE cl.phase = "sent" -> 3 [] cl.phase = "sleeping" -> 2
         [] cl.phase = "logout" -> 1 [] OTHER -> 0)

Pending(cl) == cl.phase \in {"sent", "sleeping", "logout"}

\* C15: a call sends at most 5 requests; it throws the rate-limit error
\* exactly when 5 responses were 429s; otherwise every response before the
\* last was a 429, the last was not, and what the call returns or throws is a
\* function of that response alone.  Every step of a pending call brings it
\* nearer to its end, whatever the responses.
C15_BoundedRetries ==
    /\ [](\A s \in Callers :
            /\ calls[s].sent <= 5
            /\ calls[s].phase = "returned" =>
                  /\ (calls[s].outcome = "RATE_LIMITED") = (calls[s].n429 = 5)
                  /\ calls[s].outcome = "RATE_LIMITED" => calls[s].sent = 5
                  /\ calls[s].outcome # "RATE_LIMITED" =>
                        /\ calls[s].n429 = calls[s].sent - 1
                        /\ calls[s].last.status # 429
                        /\ \A t \in Callers :
                              (calls[t].phase = "returned" /\ calls[t].last = calls[s].last)
                                  => calls[t].outcome = calls[s].outcome)
    /\ [][\A s \in Callers :
            (Pending(calls[s]) /\ calls'[s] # calls[s]) =>
                /\ Remaining(calls'[s]) < Remaining(calls[s])
                /\ Remaining(calls'[s]) >= 0]_vars

\* One call gave up after five 429s; the other returned data from its fifth
\* request, after four 429s.
C15_Witness ==
    \E s, t \in Callers :
        /\ calls[s].phase = "returned" /\ calls[s].outcome = "RATE_LIMITED" /\ calls[s].sent = 5
        /\ calls[t].phase = "returned" /\ calls[t].outcome = "ok" /\ calls[t].sent = 5

\* A Retry-After header that is a number above 0.
PositiveHint(res) ==
    res.retryAfter.present /\ res.retryAfter.numeric /\ res.retryAfter.value > 0

\* C16: the sleep before retry k (k = 0, 1, 2, 3) is the number of seconds of
\* a positive Retry-After header; without one it is 1500, 3000, 6000, 12000 ms,
\* never more than 12000 ms.
C16_BackoffDoubles ==
    \A s \in Callers :
        calls[s].phase = "sleeping" =>
            /\ calls[s].attempt \in 0..3
            /\ IF PositiveHint(calls[s].last)
               THEN calls[s].wait = calls[s].last.retryAfter.value * 1000
               ELSE /\ calls[s].wait = <<1500, 3000, 6000, 12000>>[calls[s].attempt + 1]
                    /\ calls[s].wait <= 12000

\* One call sleeps 12000 ms before its last retry, the other 2000 ms as the
\* server asked.
C16_Witness ==
    \E s, t \in Callers :
        /\ calls[s].phase = "sleeping" /\ calls[s].wait = 12000 /\ ~PositiveHint(calls[s].last)
        /\ calls[t].phase = "sleeping" /\ calls[t].wait = 2000 /\ calls[t].attempt = 3

\* A response that signals an authentication failure: errors whose message
\* holds "invalid token", or errors with status 401.
AuthFailure(res) == res.body = "invalid token" \/ (res.body = "errors" /\ res.status = 401)

\* C17: a call that receives an authentication failure calls logout, and only
\* such a call does: token and viewer are null and the three keys are removed
\* from the storage; TOKEN_EXPIRED is thrown only after that; and no request
\* sent from then on carries a token that a logout has dropped.
C17_ExpiredTokenDropped ==
    [][\A s \in Callers :
          /\ (calls[s].phase = "sent" /\ calls'[s].phase # "sent" /\ AuthFailure(calls'[s].last))
                => calls'[s].phase = "logout"
          /\ (calls[s].phase # "logout" /\ calls'[s].phase = "logout")
                => /\ AuthFailure(calls'[s].last)
                   /\ token' = 0 /\ ~viewer'
                   /\ storage' = [anilistToken |-> 0, anilistViewer |-> FALSE,
                                  recoCache |-> NoCache]
                   /\ token \in revoked' \cup {0}
          /\ (calls[s].outcome # "TOKEN_EXPIRED" /\ calls'[s].outcome = "TOKEN_EXPIRED")
                => calls[s].phase = "logout"
          /\ (calls[s].phase # "sent" /\ calls'[s].phase = "sent")
                => calls'[s].carried \notin revoked']_vars

\* A call threw TOKEN_EXPIRED for token 1; after a new login the other call,
\* which was sleeping, retries with token 2.
C17_Witness ==
    \E s, t \in Callers :
        /\ calls[s].outcome = "TOKEN_EXPIRED"
        /\ 1 \in revoked
        /\ calls[t].phase = "sent" /\ calls[t].attempt > 0 /\ calls[t].carried = 2

\* C18: a run during which a remote call threw TOKEN_EXPIRED is over only in
\* failure, with the logged-out view shown and its results neither cached nor
\* shown.
C18_SessionExpiredIsFatal ==
    (rn.expired /\ RunOver) =>
        /\ rn.pc = "failed"
        /\ ui.auth = "out"
        /\ ~CachedOrShown

\* The user has no favourite, and no list entry that is rated and not PLANNING.
NoSeedLibrary ==
    /\ server.favourites = <<>>
    /\ \A b \in 1..Len(server.lists) : \A i \in 1..Len(server.lists[b].entries) :
          \/ server.lists[b].entries[i].score = 0
          \/ server.lists[b].entries[i].status = "PLANNING"
          \/ server.lists[b].entries[i].status = NoStatus /\ server.lists[b].status = "PLANNING"

\* C20: for a user without favourites and rated entries, the seed list is
\* empty and no batch request is sent; the run fails only if a fetch threw;
\* otherwise computeRecommendations returns the empty list without an error,
\* the empty state is shown, and nothing is cached or shown as a result.
C20_NoSeedsEmptyState ==
    NoSeedLibrary =>
        /\ rn.seeds = <<>> /\ rn.issued = <<>> /\ rn.flying = {}
        /\ rn.pc \in {"idle", "cached", "fetching", "fanout", "empty", "failed"}
        /\ rn.pc = "failed" => rn.fav = "failed" \/ rn.list = "failed"
        /\ rn.pc = "empty" => rn.err = "" /\ rn.results = <<>> /\ ui.section = "error"
        /\ rn.pc = "fanout" => ENABLED ReturnResults
        /\ ~CachedOrShown

\* A refresh for a user whose list holds PLANNING entries only ended in the
\* empty state; the earlier cache is still there.
C20_Witness ==
    /\ NoSeedLibrary
    /\ server.lists # <<>>
    /\ rn.pc = "empty"
    /\ rn.fav = "done" /\ rn.list = "done"
    /\ storage.recoCache = OldCache

\* ------------------------------------------------------------------ AppSpec
\* The handlers of the popup (App._bind, App._login, App._logout, App._run) and
\* the invocations of App._run they start. Each invocation is a record of
\* procs, its number being its place in the sequence; it stops at each await
\* of App._run. computeRecommendations is one await here: what it can do
\* (return results or none, throw, log out on the way) is what RunSpec shows.
\* ui has two more fields: the display of refresh-btn and of stale-banner.

\* App._run(forceRefresh) before its first await.
NewProc(forceRefresh, username) ==
    [pc |-> IF forceRefresh THEN "compute" ELSE "loadCache",
     force |-> forceRefresh, username |-> username, expired |-> FALSE,
     loggedOut |-> FALSE]

\* _loadCache(username) returns the cache (and not null).
CacheFound(recoCache, username) ==
    /\ recoCache.n > 0
    /\ recoCache.username = ToLowerCase(username)

\* A logout has completed: the invocations in progress are marked (loggedOut
\* is history, the code keeps no such mark).
AfterLogout(ps) ==
    [i \in 1..Len(ps) |->
        IF ps[i].pc \in {"loadCache", "compute", "saving"}
        THEN [ps[i] EXCEPT !.loggedOut = TRUE] ELSE ps[i]]

\* App._run is awaiting computeRecommendations or _saveCache.
InProgress(p) == p.pc \in {"compute", "saving"}

\* _show(results) and _showCacheAge(timestamp).
Shown(u, id, stale) ==
    [u EXCEPT !.section = "results", !.shown = id,
              !.refreshBtn = TRUE, !.staleBanner = stale]

\* showStatus after the stale banner is hidden (App._run, before the try).
Loading(u) == [u EXCEPT !.section = "status", !.staleBanner = FALSE]

\* App.init has returned: logged out; or logged in with the cache restored;
\* or logged in without a cache, and _run() called.
AppInit ==
    /\ server = Server(0, 0, 0, 0)
    /\ PipeIdle
    /\ token \in {0, 1}
    /\ viewer = (token # 0)
    /\ logins = token
    /\ revoked = {}
    /\ calls = <<>>
    /\ rn = NoRun
    /\ \E cached \in {NoCache, OldCache}, stale \in BOOLEAN :
          LET out == [auth |-> "out", section |-> "none", shown |-> 0,
                      refreshBtn |-> FALSE, staleBanner |-> FALSE]
          IN  /\ storage = [anilistToken |-> token, anilistViewer |-> token # 0,
                            recoCache |-> cached]
              /\ ui = IF token = 0 THEN out
                      ELSE IF CacheFound(cached, "Josh")
                           THEN Shown([out EXCEPT !.auth = "in"], cached.run, stale)
                           ELSE [out EXCEPT !.auth = "in"]
              /\ procs = IF token # 0 /\ ~CacheFound(cached, "Josh")
                         THEN <<NewProc(FALSE, "Josh")>> ELSE <<>>
              /\ (token = 0 \/ cached.n = 0) => ~stale

\* What AppSpec leaves alone.
appFrame == <<pipeVars, revoked, calls, rn>>

\* this._run(forceRefresh), up to its first await, with username in the input.
RunCalled(forceRefresh, input) ==
    IF Trim(input) = ""
    THEN /\ ui' = [ui EXCEPT !.section = "error"]
         /\ UNCHANGED procs
    ELSE /\ Len(procs) < MaxClicks
         /\ procs' = Append(procs, NewProc(forceRefresh, Trim(input)))
         /\ ui' = IF forceRefresh THEN Loading(ui) ELSE ui

\* What the input can hold: showLoggedIn writes the viewer's name in it and
\* hides it; in the logged-out view the user types.
InputValues == IF ui.auth = "in" THEN {"Josh"} ELSE Inputs

\* fetchBtn is clicked, or Enter is pressed in the input: both are in the
\* search section, which showLoggedIn hides.
FetchClicked ==
    /\ ui.auth = "out"
    /\ \E input \in InputValues : RunCalled(FALSE, input)
    /\ UNCHANGED <<token, viewer, storage, logins>>
    /\ UNCHANGED appFrame

\* refreshBtn is clicked; _show displays it and only _logout hides it.
RefreshClicked ==
    /\ ui.refreshBtn
    /\ \E input \in InputValues : RunCalled(TRUE, input)
    /\ UNCHANGED <<token, viewer, storage, logins>>
    /\ UNCHANGED appFrame

\* staleBanner is clicked.
StaleBannerClicked ==
    /\ ui.staleBanner
    /\ \E input \in InputValues : RunCalled(TRUE, input)
    /\ UNCHANGED <<token, viewer, storage, logins>>
    /\ UNCHANGED appFrame

\* App._login after loginBtn is clicked: the flow gives a token, the logged-in
\* view is shown and _run(true) is called; or the flow fails.
LoginReturns(ok) ==
    /\ ui.auth = "out"
    /\ IF ok
       THEN /\ logins < MaxLogins
            /\ Len(procs) < MaxClicks
            /\ logins' = logins + 1
            /\ token' = logins + 1
            /\ viewer' = TRUE
            /\ storage' = [storage EXCEPT !.anilistToken = logins + 1,
                                          !.anilistViewer = TRUE]
            /\ procs' = Append(procs, NewProc(TRUE, "Josh"))
            /\ ui' = Loading([ui EXCEPT !.auth = "in"])
       ELSE /\ ui' = [ui EXCEPT !.section = "error"]
            /\ UNCHANGED <<token, viewer, storage, logins, procs>>
    /\ UNCHANGED appFrame

\* App._logout after logoutBtn is clicked.
LogoutClicked ==
    /\ ui.auth = "in"
    /\ token' = 0
    /\ viewer' = FALSE
    /\ storage' = NoStorage
    /\ ui' = [ui EXCEPT !.auth = "out",
                        !.section = IF @ = "results" THEN "none" ELSE @,
                        !.refreshBtn = FALSE, !.staleBanner = FALSE]
    /\ procs' = AfterLogout(procs)
    /\ UNCHANGED logins
    /\ UNCHANGED appFrame

\* _loadCache has returned to invocation i: the cached results are shown, or
\* computeRecommendations is called.
LoadCacheReturns(i) ==
    /\ procs[i].pc = "loadCache"
    /\ IF CacheFound(storage.recoCache, procs[i].username)
       THEN /\ procs' = [procs EXCEPT ![i].pc = "cached"]
            /\ \E stale \in BOOLEAN : ui' = Shown(ui, storage.recoCache.run, stale)
       ELSE /\ procs' = [procs EXCEPT ![i].pc = "compute"]
            /\ ui' = Loading(ui)
    /\ UNCHANGED <<token, viewer, storage, logins>>
    /\ UNCHANGED appFrame

\* A request of invocation i's computeRecommendations is answered with an
\* authentication failure: gqlRequest calls logout.
GqlLogsOut(i) ==
    /\ procs[i].pc = "compute"
    /\ ~procs[i].expired
    /\ procs' = AfterLogout([procs EXCEPT ![i].expired = TRUE])
    /\ token' = 0
    /\ viewer' = FALSE
    /\ storage' = NoStorage
    /\ UNCHANGED <<ui, logins>>
    /\ UNCHANGED appFrame

\* computeRecommendations returns results to invocation i: the empty state is
\* shown, or _saveCache is called.
ComputeReturns(i, results) ==
    /\ procs[i].pc = "compute"
    /\ procs' = [procs EXCEPT ![i].pc = IF EmptyResult(results) THEN "empty" ELSE "saving"]
    /\ ui' = IF EmptyResult(results) THEN [ui EXCEPT !.section = "error"] ELSE ui
    /\ storage' = IF EmptyResult(results) THEN storage
                  ELSE [storage EXCEPT !.recoCache =
                           [run |-> i, n |-> Len(results),
                            username |-> ToLowerCase(procs[i].username)]]
    /\ UNCHANGED <<token, viewer, logins>>
    /\ UNCHANGED appFrame

\* computeRecommendations throws kind to invocation i: the catch of App._run.
ComputeThrows(i, kind) ==
    /\ procs[i].pc = "compute"
    /\ kind = "TOKEN_EXPIRED" => procs[i].expired
    /\ procs' = [procs EXCEPT ![i].pc = "failed"]
    /\ ui' = [ui EXCEPT !.auth = IF kind = "TOKEN_EXPIRED" THEN "out" ELSE @,
                        !.section = "error"]
    /\ UNCHANGED <<token, viewer, storage, logins>>
    /\ UNCHANGED appFrame

\* _saveCache has returned to invocation i: _show(results).
SaveCacheReturns(i) ==
    /\ procs[i].pc = "saving"
    /\ procs' = [procs EXCEPT ![i].pc = "shown"]
    /\ ui' = Shown(ui, i, FALSE)
    /\ UNCHANGED <<token, viewer, storage, logins>>
    /\ UNCHANGED appFrame

AppNext ==
    \/ FetchClicked
    \/ RefreshClicked
    \/ StaleBannerClicked
    \/ \E ok \in BOOLEAN : LoginReturns(ok)
    \/ LogoutClicked
    \/ \E i \in 1..Len(procs) : LoadCacheReturns(i)
    \/ \E i \in 1..Len(procs) : GqlLogsOut(i)
    \/ \E i \in 1..Len(procs) : \E results \in {<<>>, <<i>>} : ComputeReturns(i, results)
    \/ \E i \in 1..Len(procs), kind \in FavFailureKinds : ComputeThrows(i, kind)
    \/ \E i \in 1..Len(procs) : SaveCacheReturns(i)

AppSpec == AppInit /\ [][AppNext]_vars

\* ------------------------------------------- what the claims of the popup read
\* The invocations of App._run that called _saveCache.
Wrote == {i \in 1..Len(procs) : procs[i].pc \in {"saving", "shown"}}

\* The invocations of App._run that showed their own results.
Delivered == {i \in 1..Len(procs) : procs[i].pc = "shown"}

\* C19: at most one invocation of App._run is awaiting computeRecommendations
\* or _saveCache at any time, and the results in the cache and in the grid are
\* never those of an invocation older than one that has cached or shown its own.
C19_OneRunAtATime ==
    /\ Cardinality({i \in 1..Len(procs) : InProgress(procs[i])}) <= 1
    /\ \A j \in Wrote : storage.recoCache.run >= j \/ storage.recoCache.n = 0
    /\ \A j \in Delivered : ui.section = "results" => ui.shown >= j

\* ------------------------------------------- further claims of the pipeline
\* C23: for every entry of the returned list, score = baseScore + tagBonus
\* (both in tenths), and the tagBonus field is the tag bonus plus the genre
\* bonus.
C23_ScoreIsBasePlusBonus ==
    pc = "done" =>
        \A i \in 1..Len(finalResults) :
            LET e == finalResults[i]
            IN  /\ e.score = e.baseScore * 10 + e.tagBonus
                /\ e.tagBonus * 10 = Min(MatchingTags(e), 3) * 50 + Min(MatchingGenres(e), 3) * 30

\* A returned entry recommended by a favourite has a tag bonus and a genre bonus.
C23_Witness ==
    /\ pc = "done"
    /\ \E i \in 1..Len(finalResults) :
          /\ finalResults[i].baseScore >= 2
          /\ MatchingTags(finalResults[i]) > 0
          /\ MatchingGenres(finalResults[i]) > 0
          /\ finalResults[i].score > finalResults[i].baseScore * 10 + 5

\* The k-th smallest member of a set of task indices.
Nth(I, k) == CHOOSE t \in I : Cardinality({u \in I : u < t}) = k - 1

RECURSIVE SumWeights(_)
SumWeights(rs) == IF rs = <<>> THEN 0 ELSE Head(rs).weight + SumWeights(Tail(rs))

\* What C24 says of one candidate entry.
ReasonsOfSeeds(e) ==
    LET seeds == Contributors(e.media.id)
    IN  /\ Len(e.reasons) = Cardinality(seeds)
        /\ \A k \in 1..Len(e.reasons) :
              /\ e.reasons[k].sourceTitle = tasks[Nth(seeds, k)].sourceTitle
              /\ e.reasons[k].type = tasks[Nth(seeds, k)].type
              /\ e.reasons[k].weight = tasks[Nth(seeds, k)].weight
              /\ e.reasons[k].weight = IF e.reasons[k].type = "favori" THEN 2 ELSE 1
        /\ e.baseScore = SumWeights(e.reasons)
        /\ \A k, l \in 1..Len(e.reasons) :
              k < l /\ e.reasons[l].type = "favori" => e.reasons[k].type = "favori"

\* C24: during the fan-out and in the returned list, the reasons of a
\* candidate are one record per seed of an answered batch that recommended it,
\* in the order of the seeds (favourites first), each with the seed's title,
\* type and weight; baseScore is the sum of their weights.
C24_ReasonsPerSeed ==
    FanoutStarted =>
        /\ \A i \in 1..Len(scoreMap) : ReasonsOfSeeds(scoreMap[i])
        /\ \A i \in 1..Len(finalResults) : ReasonsOfSeeds(finalResults[i])

\* A returned candidate was recommended by two favourites and a rated seed.
C24_Witness ==
    /\ pc = "done"
    /\ \E i \in 1..Len(finalResults) :
          /\ Len(finalResults[i].reasons) = 3
          /\ finalResults[i].reasons[1].type = "favori"
          /\ finalResults[i].reasons[2].type = "favori"
          /\ finalResults[i].reasons[3].type = "top note"
          /\ finalResults[i].reasons[1].sourceTitle # finalResults[i].reasons[2].sourceTitle
          /\ finalResults[i].baseScore = 5

PosIn(seq, x) == CHOOSE k \in 1..Len(seq) : seq[k] = x

\* Title a entered the score map before title b: its first seed comes first,
\* or they share it and a stands first in that seed's recommendations.
InsertedBefore(a, b) ==
    LET ta == Nth(Contributors(a), 1)
        tb == Nth(Contributors(b), 1)
    IN  \/ ta < tb
        \/ /\ ta = tb
           /\ PosIn(RemoteRecIds(tasks[ta].mediaId), a) < PosIn(RemoteRecIds(tasks[tb].mediaId), b)

\* C25: the list sorted before the diversity pass has non-increasing scores,
\* and entries of equal score stand in the order in which they entered the
\* score map.
C25_SortStableDescending ==
    pc = "done" =>
        \A i, j \in 1..Len(ranked) :
            i < j =>
                /\ ranked[i].score >= ranked[j].score
                /\ ranked[i].score = ranked[j].score =>
                      InsertedBefore(ranked[i].media.id, ranked[j].media.id)

\* Ties between candidates of one seed and of different seeds, below an entry
\* of higher score that entered the map after them.
C25_Witness ==
    /\ pc = "done"
    /\ \E i, j \in 1..Len(ranked) :
          /\ i < j /\ ranked[i].score = ranked[j].score
          /\ Nth(Contributors(ranked[i].media.id), 1) = Nth(Contributors(ranked[j].media.id), 1)
    /\ \E i, j \in 1..Len(ranked) :
          /\ i < j /\ ranked[i].score = ranked[j].score
          /\ Nth(Contributors(ranked[i].media.id), 1) < Nth(Contributors(ranked[j].media.id), 1)
    /\ \E i, j \in 1..Len(ranked) :
          /\ i < j /\ ranked[i].score > ranked[j].score
          /\ InsertedBefore(ranked[j].media.id, ranked[i].media.id)

\* The places <<i, k>> of the fetched list where genre g stands: in every
\* entry when all is TRUE, else in the entries that are not PLANNING.
GenrePlaces(g, all) ==
    {p \in (1..Len(userList)) \X (1..4) :
        /\ p[2] <= Len(userList[p[1]].genres)
        /\ userList[p[1]].genres[p[2]] = g
        /\ all \/ userList[p[1]].status # "PLANNING"}

ListGenres == UNION {Range(userList[i].genres) : i \in 1..Len(userList)}

\* Genre g is met before genre h when walking the list.
MetBefore(g, h) ==
    \E p \in GenrePlaces(g, TRUE) : \A q \in GenrePlaces(h, TRUE) :
        p[1] < q[1] \/ (p[1] = q[1] /\ p[2] < q[2])

\* C26: the top-genre set holds min(10, number of distinct genres) genres of
\* the list, counted over the entries of every status; a genre in the set is
\* more frequent than a genre outside it, or as frequent and met earlier.
C26_TopGenresMostFrequent ==
    FanoutStarted =>
        /\ sets.topGenres \subseteq ListGenres
        /\ Cardinality(sets.topGenres) = Min(10, Cardinality(ListGenres))
        /\ \A g \in sets.topGenres : \A h \in ListGenres \ sets.topGenres :
              \/ Cardinality(GenrePlaces(g, TRUE)) > Cardinality(GenrePlaces(h, TRUE))
              \/ /\ Cardinality(GenrePlaces(g, TRUE)) = Cardinality(GenrePlaces(h, TRUE))
                 /\ MetBefore(g, h)

\* More than ten genres, a tie at the cut, and a genre that is in the set
\* thanks to the PLANNING entries.
C26_Witness ==
    /\ pc = "done"
    /\ Cardinality(ListGenres) > 10
    /\ \E g \in sets.topGenres : \E h \in ListGenres \ sets.topGenres :
          Cardinality(GenrePlaces(g, TRUE)) = Cardinality(GenrePlaces(h, TRUE))
    /\ \E g \in sets.topGenres : \E h \in ListGenres \ sets.topGenres :
          Cardinality(GenrePlaces(g, FALSE)) < Cardinality(GenrePlaces(h, FALSE))

\* The places <<i, j>> of the fetched list where a tag named name stands.
TagPlaces(name) ==
    {p \in (1..Len(userList)) \X (1..6) :
        p[2] <= Len(userList[p[1]].tags) /\ userList[p[1]].tags[p[2]].name = name}

RECURSIVE SumRanks(_)
SumRanks(P) ==
    IF P = {} THEN 0
    ELSE LET p == CHOOSE x \in P : TRUE
         IN  userList[p[1]].tags[p[2]].rank + SumRanks(P \ {p})

\* Math.round(totalRank / count) of the user's tags of that name.
Strength(name) ==
    LET total == SumRanks(TagPlaces(name))
        n == Cardinality(TagPlaces(name))
    IN  IF 2 * (total % n) >= n THEN (total \div n) + 1 ELSE total \div n

\* The candidate's tags that are in the user's profile, by place.
Matches(e) == {k \in 1..Len(e.media.tags) : TagPlaces(e.media.tags[k].name) # {}}

\* C27: commonTags holds tags of the candidate that are in the user's
\* profile, each once and with strength round(totalRank / count), strongest
\* first, at most 5 and none weaker than one left out; the tag bonus is 0.5
\* for each match, of at most 3.
C27_CommonTagsShown ==
    pc = "done" =>
        \A i \in 1..Len(filtered) :
            LET e == filtered[i]
                shown == {e.commonTags[k].name : k \in 1..Len(e.commonTags)}
            IN  /\ Len(e.commonTags) = Min(5, Cardinality(Matches(e)))
                /\ Cardinality(shown) = Len(e.commonTags)
                /\ shown \subseteq {e.media.tags[k].name : k \in Matches(e)}
                /\ \A k \in 1..Len(e.commonTags) :
                      e.commonTags[k].strength = Strength(e.commonTags[k].name)
                /\ \A k, l \in 1..Len(e.commonTags) :
                      k < l => e.commonTags[k].strength >= e.commonTags[l].strength
                /\ \A k \in Matches(e) : \A l \in 1..Len(e.commonTags) :
                      e.media.tags[k].name \notin shown =>
                          Strength(e.media.tags[k].name) <= e.commonTags[l].strength
                /\ bonuses[i].tag = Min(Cardinality(Matches(e)), 3) * 50

\* A candidate with six matches shows five, and one with four matches of
\* different strengths shows the four, for a tag bonus of 1.5 each.
C27_Witness ==
    /\ pc = "done"
    /\ \E i \in 1..Len(filtered) :
          /\ Cardinality(Matches(filtered[i])) = 6
          /\ Len(filtered[i].commonTags) = 5
          /\ bonuses[i].tag = 150
    /\ \E i \in 1..Len(filtered) :
          /\ Cardinality(Matches(filtered[i])) = 4
          /\ Len(filtered[i].commonTags) = 4
          /\ filtered[i].commonTags[1].strength > filtered[i].commonTags[4].strength
          /\ bonuses[i].tag = 150

\* The tasks of the batch that starts at task from.
BatchTasks(from) == {i \in 1..Len(tasks) : from < i /\ i <= from + 12}

\* The number of reasons title id has in a score map.
ReasonCount(map, id) ==
    IF \E i \in 1..Len(map) : map[i].media.id = id
    THEN Len(map[CHOOSE i \in 1..Len(map) : map[i].media.id = id].reasons)
    ELSE 0

\* The sum of the weights of a set of tasks.
RECURSIVE TaskWeights(_)
TaskWeights(I) ==
    IF I = {} THEN 0
    ELSE LET i == CHOOSE x \in I : TRUE IN tasks[i].weight + TaskWeights(I \ {i})

BaseScoreOf(map, id) ==
    IF \E i \in 1..Len(map) : map[i].media.id = id
    THEN map[CHOOSE i \in 1..Len(map) : map[i].media.id = id].baseScore
    ELSE 0

\* C28: a batch that fails leaves the score map as it was; a batch that is
\* answered adds to each title one reason and the weight of each of its seeds
\* that recommends the title, whatever the other seeds of the batch returned
\* (no data, no node, a null node), and adds no title for a null node.
C28_FailedBatchLeavesMap ==
    [][(pc = "fanout" /\ Len(batchLog') = Len(batchLog) + 1) =>
          IF batchLog'[Len(batchLog')] = "failed"
          THEN scoreMap' = scoreMap
          ELSE /\ \A i \in 1..Len(scoreMap') : scoreMap'[i].media.id # 0
               /\ \A id \in UNION {Recommended(tasks[t].mediaId) : t \in BatchTasks(c)} \cup
                            {scoreMap[i].media.id : i \in 1..Len(scoreMap)} :
                    LET givers == {t \in BatchTasks(c) : id \in Recommended(tasks[t].mediaId)}
                    IN  /\ ReasonCount(scoreMap', id) = ReasonCount(scoreMap, id) + Cardinality(givers)
                        /\ BaseScoreOf(scoreMap', id) = BaseScoreOf(scoreMap, id) + TaskWeights(givers)]_vars

\* The second batch failed after the first filled the score map; the first
\* held a seed without data, a seed without nodes and a seed with a null node,
\* each followed by a seed that contributed.
C28_Witness ==
    /\ pc = "done"
    /\ batchLog = <<"ok", "failed">>
    /\ scoreMap # <<>>
    /\ \E t \in BatchTasks(0) : tasks[t].mediaId % 7 = 0
    /\ \E t \in BatchTasks(0) : tasks[t].mediaId % 5 = 0
    /\ \E t \in BatchTasks(0) : 0 \in Range(RemoteRecIds(tasks[t].mediaId))
    /\ \E t \in BatchTasks(0) : t > 8 /\ t \in Contributors(101)

\* ------------------------------------------------------------------ FavSpec
\* fetchAllFavourites against any remote service: each page is answered with
\* a User or none, some nodes and a hasNextPage flag, or the request throws.
\* calls is the log of the requests: [page, user, nodes, hasNextPage, outcome].

\* The answers the service can give to the request for one page; the service
\* holds MaxPages pages at most.
FavAnswers(page) ==
    {[user |-> TRUE,
      nodes |-> [k \in 1..n |-> [id |-> 10 * page + k, title |-> RemoteTitle(10 * page + k)]],
      hasNextPage |-> more] : n \in 0..MaxNodes, more \in {m \in BOOLEAN : m => page < MaxPages}}
    \cup {[user |-> FALSE, nodes |-> <<>>, hasNextPage |-> FALSE]}

FavInit ==
    /\ server = Server(0, 0, 0, 0)
    /\ PipeIdle
    /\ NetIdle

\* Mutant of HasNext: the loop goes on while the page holds nodes.
HasNextWhileNodes(res) == res.nodes # <<>>

\* hasNext = anime.pageInfo.hasNextPage
HasNext(res) == res.hasNextPage

\* fetchAllFavourites(username) is called: the first request is sent.
FavCalled ==
    /\ pc = "idle"
    /\ pc' = "fetching"
    /\ favPage' = 1
    /\ favResults' = <<>>
    /\ favDone' = FALSE
    /\ UNCHANGED <<server, run, userList, listDone, sets, tasks, scoreMap, c, batchLog,
                   filtered, bonuses, ranked, nDiversified, finalResults, prev>>
    /\ UNCHANGED netVars

\* The request for page favPage is answered: the function throws when there
\* is no User; else it pushes the nodes, and returns or requests the next page.
FavAnswered(res) ==
    /\ pc = "fetching"
    /\ favPage <= MaxPages
    /\ calls' = Append(calls, [page |-> favPage, user |-> res.user, nodes |-> res.nodes,
                               hasNextPage |-> res.hasNextPage,
                               outcome |-> IF res.user THEN "ok" ELSE "NOT_FOUND"])
    /\ IF ~res.user
       THEN /\ pc' = "failed"
            /\ UNCHANGED <<favPage, favResults, favDone>>
       ELSE /\ favResults' = favResults \o FavouriteResults(res.nodes)
            /\ favDone' = ~HasNext(res)
            /\ favPage' = favPage + 1
            /\ pc' = IF HasNext(res) THEN "fetching" ELSE "done"
    /\ UNCHANGED <<server, run, userList, listDone, sets, tasks, scoreMap, c, batchLog,
                   filtered, bonuses, ranked, nDiversified, finalResults, prev>>
    /\ UNCHANGED <<token, viewer, storage, logins, revoked, ui, rn, procs>>

\* gqlRequest throws for page favPage.
FavThrows(kind) ==
    /\ pc = "fetching"
    /\ favPage <= MaxPages
    /\ calls' = Append(calls, [page |-> favPage, user |-> FALSE, nodes |-> <<>>,
                               hasNextPage |-> FALSE, outcome |-> kind])
    /\ pc' = "failed"
    /\ UNCHANGED <<server, run, favPage, favResults, favDone, userList, listDone, sets, tasks,
                   scoreMap, c, batchLog, filtered, bonuses, ranked, nDiversified,
                   finalResults, prev>>
    /\ UNCHANGED <<token, viewer, storage, logins, revoked, ui, rn, procs>>

FavNext ==
    \/ FavCalled
    \/ \E res \in FavAnswers(favPage) : FavAnswered(res)
    \/ \E kind \in FailureKinds : FavThrows(kind)

\* A request that was sent is answered, or throws, in the end.
FavSpec == FavInit /\ [][FavNext]_vars /\ WF_vars(FavNext)

\* The ids of the nodes of the pages answered so far, in the order of the pages.
PagedIds == Flatten([k \in 1..Len(calls) |->
                        [j \in 1..Len(calls[k].nodes) |-> calls[k].nodes[j].id]])

\* What C22 says of the requests sent so far and of the outcome.
FavContract ==
    /\ \A k \in 1..Len(calls) : calls[k].page = k
    /\ \A k \in 1..(Len(calls) - 1) : calls[k].user /\ calls[k].hasNextPage
    /\ pc = "fetching" => favPage = Len(calls) + 1
    /\ pc = "done" <=>
          calls # <<>> /\ calls[Len(calls)].user /\ ~calls[Len(calls)].hasNextPage
    /\ pc = "failed" <=> calls # <<>> /\ calls[Len(calls)].outcome # "ok"
    /\ (calls # <<>> /\ calls[Len(calls)].outcome \notin FailureKinds /\ ~calls[Len(calls)].user)
          => pc = "failed" /\ calls[Len(calls)].outcome = "NOT_FOUND"
    /\ pc = "done" =>
          /\ Len(favResults) = Len(PagedIds)
          /\ \A i \in 1..Len(favResults) : favResults[i].id = PagedIds[i]

\* C22: fetchAllFavourites requests the pages 1, 2, 3, ... in turn, each after
\* the answer to the one before; it returns after the first page without a
\* next page, with the nodes of all the pages in order; it throws the
\* not-found error at the first page without a User; and, the service
\* signalling the last page in the end, it does not go on for ever.
C22_FavouritesPaging ==
    /\ []FavContract
    /\ (pc = "fetching" ~> pc \in {"done", "failed"})

\* Three pages were fetched; the second was empty and had a next page.
C22_Witness ==
    /\ pc = "done"
    /\ Len(calls) = 3
    /\ calls[1].nodes # <<>> /\ calls[2].nodes = <<>> /\ calls[3].nodes # <<>>
    /\ Len(favResults) = Len(calls[1].nodes) + Len(calls[3].nodes)

\* The names that lower-case to a cache key.
NamesOfKey(key) ==
    CASE key = "josh" -> {"Josh", "JOSH", "josh"}
      [] key = "ann"  -> {"Ann", "ANN", "ann"}
      [] OTHER        -> {}

\* C21: an invocation without forceRefresh whose name matches the cached
\* username but for the case of the letters shows the cached results, stale
\* or not, and never calls computeRecommendations; an invocation with
\* forceRefresh, or for another name, calls it.
C21_CacheKeyedByLowerCase ==
    [][/\ \A i \in 1..Len(procs) :
            /\ (procs[i].pc = "loadCache" /\ procs'[i].pc # "loadCache") =>
                  IF /\ storage.recoCache.n > 0
                     /\ procs[i].username \in NamesOfKey(storage.recoCache.username)
                  THEN /\ procs'[i].pc = "cached"
                       /\ ui'.section = "results"
                       /\ ui'.shown = storage.recoCache.run
                       /\ storage' = storage
                  ELSE procs'[i].pc = "compute"
            /\ procs[i].pc = "cached" => procs'[i].pc = "cached"
            /\ procs'[i].pc = "cached" => ~procs[i].force
       /\ Len(procs') > Len(procs) =>
            procs'[Len(procs')].pc =
                IF procs'[Len(procs')].force THEN "compute" ELSE "loadCache"]_vars

\* The cache of josh, stale, is shown to JOSH, while the run for Ann, started
\* without forceRefresh, computes.
C21_Witness ==
    /\ Len(procs) = 2
    /\ procs[1].username = "Ann" /\ ~procs[1].force /\ procs[1].pc = "compute"
    /\ procs[2].username = "JOSH" /\ procs[2].pc = "cached"
    /\ storage.recoCache.username = "josh"
    /\ ui.section = "results" /\ ui.shown = storage.recoCache.run /\ ui.staleBanner

\* A logout completes in this step: logoutBtn, or gqlRequest on expiry.
LogoutCompletes == \E i \in 1..Len(procs) : ~procs[i].loggedOut /\ procs'[i].loggedOut

\* C29: when a logout completes, storage holds neither token nor cached
\* results, and an invocation of App._run that was in progress at that time
\* does not write the cache or show its results afterwards.
C29_NothingAfterLogout ==
    [][/\ LogoutCompletes =>
            /\ token' = 0
            /\ storage'.anilistToken = 0
            /\ storage'.recoCache.n = 0
       /\ \A i \in 1..Len(procs) :
            procs[i].loggedOut =>
                /\ procs'[i].pc = "saving" => procs[i].pc = "saving"
                /\ procs'[i].pc = "shown" => procs[i].pc = "shown"
                /\ storage'.recoCache.run # i \/ storage'.recoCache = storage.recoCache
                /\ (ui'.section = "results" /\ ui'.shown = i) =>
                      (ui.section = "results" /\ ui.shown = i)]_vars

====
